---- MODULE Spec2Model ----
(***************************************************************************)
(* Mastery estimation of the adaptive-learning backend:                    *)
(*   backend/services/adaptive_learning.py  (BKT, IRT, mastery records)    *)
(*   backend/routers/student.py             (submit_quiz_answers)          *)
(*   backend/clear_db.py                    (clear_data)                   *)
(*                                                                         *)
(* Python floats are modelled in fixed point.  A probability (theta, a     *)
(* difficulty, a discrimination, a rate) x is the integer nearest x*Scale;  *)
(* a percentage (mastery_score, score) s is the integer nearest s*PctUnit,  *)
(* so that 100.0 percent and the probability 1.0 are both 10000.  Every    *)
(* product and quotient is rounded to the nearest point of the grid, as    *)
(* IEEE arithmetic rounds to the nearest float.  TLC's integers have 32    *)
(* bits, so a quotient of two products is taken by long division.          *)
(***************************************************************************)
EXTENDS Integers, Sequences, FiniteSets, TLC

\* ------------------------------------------------------------------------
\* Fixed-point arithmetic
\* ------------------------------------------------------------------------

\* decimal digits kept of a float, and the float 1.0
ScaleDigits == 4
Scale == 10 ^ ScaleDigits
\* fixed-point units per percentage point (mastery_score is 0-100)
PctUnit == Scale \div 100

Min(x, y) == IF x <= y THEN x ELSE y
Max(x, y) == IF x >= y THEN x ELSE y

\* n / d rounded to the nearest integer (d > 0)
Round(n, d) == (n + d \div 2) \div d

\* x * y and x / y of two fixed-point numbers
Mul(x, y) == Round(x * y, Scale)
Div(x, y) == Round(x * Scale, y)

\* n / d as a fixed-point number, n and d being exact products of two
\* fixed-point numbers (0 <= n, 0 < d): long division, digit by digit
RECURSIVE LongDiv(_, _, _, _)
LongDiv(q, r, d, digits) ==
    IF digits = 0
    THEN IF 2 * r >= d THEN q + 1 ELSE q
    ELSE LongDiv(q * 10 + (r * 10) \div d, (r * 10) % d, d, digits - 1)
Quot(n, d) == LongDiv(n \div d, n % d, d, ScaleDigits)

\* mastery_score / 100.0  and  theta * 100
ToTheta(score) == Round(score * Scale, 100 * PctUnit)
ToScore(theta) == Round(theta * 100 * PctUnit, Scale)

\* math.exp(x) for |x| <= 3: the Taylor series, term by term
ExpTerms == 14
RECURSIVE ExpSeries(_, _, _)
ExpSeries(x, k, term) ==
    IF k > ExpTerms THEN 0
    ELSE term + ExpSeries(x, k + 1, Round(term * x, Scale * (k + 1)))
Exp(x) == ExpSeries(x, 0, Scale)

\* ------------------------------------------------------------------------
\* BayesianKnowledgeTracer
\* ------------------------------------------------------------------------

learn_rate == 3000
guess_rate == 1000
slip_rate == 1000

\* update_mastery adding the learn rate flat, with no min(1.0, ...)
update_mastery_unclamped(prev_mastery, correctness) ==
    LET numerator ==
            IF correctness
            THEN prev_mastery * (Scale - slip_rate)
            ELSE prev_mastery * slip_rate
        denominator ==
            IF correctness
            THEN prev_mastery * (Scale - slip_rate)
                 + (Scale - prev_mastery) * guess_rate
            ELSE prev_mastery * slip_rate
                 + (Scale - prev_mastery) * (Scale - guess_rate)
    IN  IF denominator = 0 THEN prev_mastery
        ELSE Quot(numerator, denominator) + learn_rate

\* update_mastery with the two branches of "if correctness" swapped
update_mastery_swapped(prev_mastery, correctness) ==
    LET numerator ==
            IF ~correctness
            THEN prev_mastery * (Scale - slip_rate)
            ELSE prev_mastery * slip_rate
        denominator ==
            IF ~correctness
            THEN prev_mastery * (Scale - slip_rate)
                 + (Scale - prev_mastery) * guess_rate
            ELSE prev_mastery * slip_rate
                 + (Scale - prev_mastery) * (Scale - guess_rate)
    IN  IF denominator = 0 THEN prev_mastery
        ELSE LET new_mastery == Quot(numerator, denominator)
             IN  Min(Scale, new_mastery + Mul(learn_rate, Scale - new_mastery))

\* update_mastery returning the posterior, the learn rate not applied
update_mastery_noblend(prev_mastery, correctness) ==
    LET numerator ==
            IF correctness
            THEN prev_mastery * (Scale - slip_rate)
            ELSE prev_mastery * slip_rate
        denominator ==
            IF correctness
            THEN prev_mastery * (Scale - slip_rate)
                 + (Scale - prev_mastery) * guess_rate
            ELSE prev_mastery * slip_rate
                 + (Scale - prev_mastery) * (Scale - guess_rate)
    IN  IF denominator = 0 THEN prev_mastery
        ELSE Quot(numerator, denominator)

update_mastery(prev_mastery, correctness) ==
    LET p_correct_given_knowledge == Scale - slip_rate
        p_correct_given_no_knowledge == guess_rate
        numerator ==
            IF correctness
            THEN prev_mastery * p_correct_given_knowledge
            ELSE prev_mastery * (Scale - p_correct_given_knowledge)
        denominator ==
            IF correctness
            THEN prev_mastery * p_correct_given_knowledge
                 + (Scale - prev_mastery) * p_correct_given_no_knowledge
            ELSE prev_mastery * (Scale - p_correct_given_knowledge)
                 + (Scale - prev_mastery) * (Scale - p_correct_given_no_knowledge)
    IN  IF denominator = 0 THEN prev_mastery
        ELSE LET new_mastery == Quot(numerator, denominator)
             IN  Min(Scale, new_mastery + Mul(learn_rate, Scale - new_mastery))

\* BayesianKnowledgeTracer(learn_rate, guess_rate, slip_rate): an instance
Tracer(learn, guess, slip) ==
    [learn_rate |-> learn, guess_rate |-> guess, slip_rate |-> slip]

\* bkt_model = BayesianKnowledgeTracer()
bkt_model == Tracer(learn_rate, guess_rate, slip_rate)

\* the denominator of Bayes' theorem in self.update_mastery, in units of
\* 1 / Scale^2
Denominator(self, prev_mastery, correctness) ==
    LET p_correct_given_knowledge == Scale - self.slip_rate
        p_correct_given_no_knowledge == self.guess_rate
    IN  IF correctness
        THEN prev_mastery * p_correct_given_knowledge
             + (Scale - prev_mastery) * p_correct_given_no_knowledge
        ELSE prev_mastery * (Scale - p_correct_given_knowledge)
             + (Scale - prev_mastery) * (Scale - p_correct_given_no_knowledge)

\* self.update_mastery returning 0.0 when the denominator is 0
TracerUpdateMastery_zero(self, prev_mastery, correctness) ==
    LET numerator ==
            IF correctness
            THEN prev_mastery * (Scale - self.slip_rate)
            ELSE prev_mastery * self.slip_rate
        denominator == Denominator(self, prev_mastery, correctness)
    IN  IF denominator = 0 THEN 0
        ELSE LET new_mastery == Quot(numerator, denominator)
             IN  Min(Scale, new_mastery + Mul(self.learn_rate, Scale - new_mastery))

\* self.update_mastery(prev_mastery, correctness) of any instance
TracerUpdateMastery(self, prev_mastery, correctness) ==
    LET p_correct_given_knowledge == Scale - self.slip_rate
        numerator ==
            IF correctness
            THEN prev_mastery * p_correct_given_knowledge
            ELSE prev_mastery * (Scale - p_correct_given_knowledge)
        denominator == Denominator(self, prev_mastery, correctness)
    IN  IF denominator = 0 THEN prev_mastery
        ELSE LET new_mastery == Quot(numerator, denominator)
             IN  Min(Scale, new_mastery + Mul(self.learn_rate, Scale - new_mastery))

\* ------------------------------------------------------------------------
\* update_mastery_score: the new mastery_score
\* ------------------------------------------------------------------------

\* Python's None (a missing record, score or question_difficulty)
None == -1

\* correctness = 1 if score >= 70 else 0
Correctness(score) == score >= 70 * PctUnit

\* the existing-record branch without "max(0.0, min(1.0, new_mastery))"
UmsExisting_unclamped(mastery_score, correctness, question_difficulty) ==
    LET irt_difficulty ==
            IF question_difficulty # None THEN question_difficulty ELSE 5000
        prev_mastery == ToTheta(mastery_score)
        bkt == update_mastery(prev_mastery, correctness)
    IN  ToScore(IF correctness
                THEN prev_mastery
                     + Mul(bkt - prev_mastery, Scale + Mul(irt_difficulty, 3000))
                ELSE prev_mastery
                     + Mul(bkt - prev_mastery,
                           Scale + Mul(Scale - irt_difficulty, 3000)))

\* the existing-record branch
UmsExisting(mastery_score, correctness, question_difficulty) ==
    LET irt_difficulty ==
            IF question_difficulty # None THEN question_difficulty ELSE 5000
        prev_mastery == ToTheta(mastery_score)
        bkt == update_mastery(prev_mastery, correctness)
        new_mastery ==
            IF correctness
            THEN prev_mastery
                 + Mul(bkt - prev_mastery, Scale + Mul(irt_difficulty, 3000))
            ELSE prev_mastery
                 + Mul(bkt - prev_mastery,
                       Scale + Mul(Scale - irt_difficulty, 3000))
    IN  ToScore(Max(0, Min(Scale, new_mastery)))

\* the new-record branch
UmsNew(correctness, question_difficulty) ==
    LET initial_mastery == IF correctness THEN 5000 ELSE 2000
        bkt == update_mastery(initial_mastery, correctness)
        new_mastery ==
            IF question_difficulty = None THEN bkt
            ELSE IF correctness
            THEN Min(Scale, initial_mastery
                            + Mul(Scale - initial_mastery,
                                  Scale + Mul(question_difficulty, 3000)))
            ELSE Max(0, initial_mastery
                        - Mul(Mul(initial_mastery, Scale - question_difficulty),
                              3000))
    IN  ToScore(Max(0, Min(Scale, new_mastery)))

\* ------------------------------------------------------------------------
\* update_mastery_score_with_irt: the new mastery_score
\* ------------------------------------------------------------------------

\* prob_correct = 1 / (1 + exp(-D * a * (theta - b))), D = 1.7
ProbCorrect(theta, b, a) ==
    Div(Scale, Scale + Exp(Mul(Mul(-17000, a), theta - b)))

\* new_theta without min(1.0, ...) and max(0.0, ...)
IrtTheta_unclamped(theta, correctness, b, a) ==
    LET prob_correct == ProbCorrect(theta, b, a)
    IN  IF correctness
        THEN theta + Mul(Mul(Scale - prob_correct, 1000), a)
        ELSE theta - Mul(Mul(prob_correct, 1000), a)

\* new_theta with the adjustment taken from prob_correct on a correct answer
\* and from 1 - prob_correct on an incorrect one
IrtTheta_swapped_adjustment(theta, correctness, b, a) ==
    LET prob_correct == ProbCorrect(theta, b, a)
    IN  IF correctness
        THEN Min(Scale, theta + Mul(Mul(prob_correct, 1000), a))
        ELSE Max(0, theta - Mul(Mul(Scale - prob_correct, 1000), a))

\* new_theta with a learning rate of 0.2
IrtTheta_double_rate(theta, correctness, b, a) ==
    LET prob_correct == ProbCorrect(theta, b, a)
    IN  IF correctness
        THEN Min(Scale, theta + Mul(Mul(Scale - prob_correct, 2000), a))
        ELSE Max(0, theta - Mul(Mul(prob_correct, 2000), a))

\* new_theta of both branches
IrtTheta(theta, correctness, b, a) ==
    LET prob_correct == ProbCorrect(theta, b, a)
    IN  IF correctness
        THEN Min(Scale, theta + Mul(Mul(Scale - prob_correct, 1000), a))
        ELSE Max(0, theta - Mul(Mul(prob_correct, 1000), a))

\* the existing-record branch with the assignment to mastery_score left out
IrtExisting_not_stored(mastery_score, correctness, b, a) == mastery_score

IrtExisting(mastery_score, correctness, b, a) ==
    ToScore(IrtTheta(ToTheta(mastery_score), correctness, b, a))

\* the new-record branch with the two initial thetas swapped
IrtNew_swapped_initial(correctness, b, a) ==
    LET initial_theta == IF correctness THEN 2000 ELSE 5000
    IN  ToScore(IrtTheta(initial_theta, correctness, b, a))

IrtNew(correctness, b, a) ==
    LET initial_theta == IF correctness THEN 5000 ELSE 2000
    IN  ToScore(IrtTheta(initial_theta, correctness, b, a))

\* ------------------------------------------------------------------------
\* Bounds and input sets
\* ------------------------------------------------------------------------

\* graded interactions of one behaviour
MaxSteps == 2
\* questions of one submit_quiz_answers submission
MaxQuestions == 2

Students == {1}
ConceptIds == {1, 2}
\* assignment 1 teaches concept 1, assignment 2 has no concept,
\* assignment 3 is assigned to nobody
AssignmentIds == {1, 2, 3}
AssignedIds == {1, 2}
AssignmentConcept == <<1, None, 2>>

\* score in [0,100]: the pass mark and the score just below it
Scores == {69 * PctUnit, 70 * PctUnit}
\* question_difficulty / question_irt_difficulty in [0,1], and the default
Difficulties == {0, 5000, 10000}
OptDifficulties == Difficulties \cup {None}
\* discrimination_index in [0.5,1.5]
Discriminations == {5000, 10000, 15000}
\* any discrimination_index, zero and negative ones too
AnyDiscriminations == {-15000, -10000, -5000, 0} \cup Discriminations
\* mastery scores of records that exist before the first step
StoredScores == {0, 3375}
\* every 50th point of [0,1]
ThetaGrid == {50 * i : i \in 0..(Scale \div 50)}

\* ------------------------------------------------------------------------
\* State
\* ------------------------------------------------------------------------

VARIABLES
    mastery,              \* table StudentMastery: the rows, in insertion order
    student_assignments,  \* table StudentAssignments: (student, assignment) -> row
    engagement_logs,      \* table EngagementLogs: rows per student
    student_xp,           \* total XP per student
    last,                 \* the last call: its inputs and what it did
    prev,                 \* the call before the last one
    steps,                \* calls made
    req,                  \* concurrent requests: each worker's session
    commits,              \* the workers that committed, in commit order
    attempts,             \* table Attempt: the rows, in insertion order
    student_quizzes,      \* table StudentQuizzes: the rows, in insertion order
    quizzes,              \* tables Quiz and QuizQuestion: per quiz its questions
    mastery_scores,       \* table MasteryScores: the rows, in insertion order
    result,               \* what the last call returned
    request,              \* the body of the last request
    gemini                \* the invocation of call_gemini_api under way

vars == <<mastery, student_assignments, engagement_logs, student_xp, last, prev,
          steps, req, commits, attempts, student_quizzes, quizzes,
          mastery_scores, result, request, gemini>>

\* the tables of the quiz router and the value returned
quiz_vars == <<attempts, student_quizzes, quizzes, mastery_scores, result,
               request, gemini>>

\* no invocation of call_gemini_api
NoInvocation ==
    [pc |-> "idle", api_key |-> "", env_key |-> "", expect_json |-> FALSE,
     attempt_number |-> 0, requests |-> 0, outcome |-> "none", value |-> "none"]

\* db.query(StudentMastery).filter(student_id ==, concept_id ==).first():
\* the index of the first matching row, 0 when there is none
QueryFirst(tbl, s, c) ==
    LET hits == {i \in 1..Len(tbl) :
                    tbl[i].student_id = s /\ tbl[i].concept_id = c}
    IN  IF hits = {} THEN 0 ELSE CHOOSE i \in hits : \A j \in hits : i <= j

\* the stored mastery_score of (s, c), None when no row exists
ScoreOf(tbl, s, c) ==
    IF QueryFirst(tbl, s, c) = 0 THEN None
    ELSE tbl[QueryFirst(tbl, s, c)].mastery_score

\* number of rows of (s, c)
RowCount(tbl, s, c) ==
    Cardinality({i \in 1..Len(tbl) :
                    tbl[i].student_id = s /\ tbl[i].concept_id = c})

\* a new row on every call, the row found or not
Upsert_always_add(tbl, s, c, v) ==
    Append(tbl, [student_id |-> s, concept_id |-> c, mastery_score |-> v])

\* get-or-create with the new score: mastery_record.mastery_score = v on the
\* row found, db.add(StudentMastery(...)) when none was found
Upsert(tbl, s, c, v) ==
    LET i == QueryFirst(tbl, s, c)
    IN  IF i # 0
        THEN [tbl EXCEPT ![i].mastery_score = v]
        ELSE Append(tbl, [student_id |-> s, concept_id |-> c, mastery_score |-> v])

NoCall ==
    [op |-> "none", student |-> 0, concept |-> 0, score |-> None,
     difficulty |-> None, discrimination |-> None,
     before |-> None, after |-> None, raised |-> 0, code |-> 0]

\* raised: the status of the HTTPException raised inside the handler (0: none);
\* code: the status the caller gets
Call(op, s, c, score, b, a, before, after, raised, code) ==
    [op |-> op, student |-> s, concept |-> c, score |-> score,
     difficulty |-> b, discrimination |-> a,
     before |-> before, after |-> after, raised |-> raised, code |-> code]

AssignedRow == [status |-> "assigned", score |-> None]

\* the threads that serve requests at the same time
Workers == {1, 2}

\* a worker with no request
IdleRequest ==
    [pc |-> "idle", op |-> "none", student |-> 0, concept |-> 0, score |-> None,
     difficulty |-> None, discrimination |-> None,
     row |-> 0, read |-> None, new |-> None, seen |-> 0]

InitTables ==
    /\ student_assignments =
           [k \in Students \X AssignedIds |-> AssignedRow]
    /\ engagement_logs = [s \in Students |-> 0]
    /\ student_xp = [s \in Students |-> 0]
    /\ last = NoCall
    /\ prev = NoCall
    /\ steps = 0
    /\ req = [w \in Workers |-> IdleRequest]
    /\ commits = << >>
    /\ attempts = << >>
    /\ student_quizzes = << >>
    /\ quizzes = << >>
    /\ mastery_scores = << >>
    /\ result = None
    /\ request = None
    /\ gemini = NoInvocation

Init ==
    /\ mastery \in {<< >>} \cup
           {<<[student_id |-> 1, concept_id |-> 1, mastery_score |-> v]>> :
               v \in StoredScores}
    /\ InitTables

\* ------------------------------------------------------------------------
\* Operations
\* ------------------------------------------------------------------------

\* update_mastery_score(student_id, concept_id, score, db, question_difficulty)
update_mastery_score(s, c, score, question_difficulty) ==
    LET before == ScoreOf(mastery, s, c)
        correctness == Correctness(score)
        after == IF before # None
                 THEN UmsExisting(before, correctness, question_difficulty)
                 ELSE UmsNew(correctness, question_difficulty)
    IN  /\ mastery' = Upsert(mastery, s, c, after)
        /\ last' = Call("ums", s, c, score, question_difficulty, None,
                        before, after, 0, 200)
        /\ prev' = last
        /\ steps' = steps + 1
        /\ UNCHANGED <<student_assignments, engagement_logs, student_xp>>

\* update_mastery_score_with_irt(student_id, concept_id, score,
\*     question_irt_difficulty, discrimination_index, db)
update_mastery_score_with_irt(s, c, score, b, a) ==
    LET before == ScoreOf(mastery, s, c)
        correctness == Correctness(score)
        after == IF before # None
                 THEN IrtExisting(before, correctness, b, a)
                 ELSE IrtNew(correctness, b, a)
    IN  /\ mastery' = Upsert(mastery, s, c, after)
        /\ last' = Call("irt", s, c, score, b, a, before, after, 0, 200)
        /\ prev' = last
        /\ steps' = steps + 1
        /\ UNCHANGED <<student_assignments, engagement_logs, student_xp>>

\* gamification.award_xp(student_id, xp_earned, db)
award_xp(xp, s, xp_earned) == [xp EXCEPT ![s] = @ + xp_earned]

\* new_score = old_score * 0.4 + score * 0.6; min(100, new_score)
SqaMastery(old_score, score) ==
    Min(100 * PctUnit, Mul(old_score, 4000) + Mul(score, 6000))

\* get or create the mastery record of submit_quiz_answers
SqaUpsert(tbl, s, c, score) ==
    LET i == QueryFirst(tbl, s, c)
    IN  IF i # 0
        THEN [tbl EXCEPT ![i].mastery_score = SqaMastery(@, score)]
        ELSE Append(tbl, [student_id |-> s, concept_id |-> c,
                          mastery_score |-> score])

\* the body of the HTTPException(500) of "except Exception"
SqaError ==
    [detail |-> "An error occurred while processing your submission. Please try again."]

\* an exception raised inside the try block reaches "except Exception":
\* rollback, then HTTPException(500)
SqaRaise(s, aid, raised) ==
    /\ last' = Call("sqa", s, None, None, None, None, None, None, raised, 500)
    /\ prev' = last
    /\ steps' = steps + 1
    /\ result' = SqaError
    /\ UNCHANGED <<mastery, student_assignments, engagement_logs, student_xp>>

\* where a first attempt may fail once the session holds the new score and
\* mastery: in gamification.award_xp, or in db.commit()
SqaFailures == {"award_xp", "commit"}

\* the mastery score the session holds for concept c after the update
SqaSessionMastery(s, c, score) ==
    IF c = None THEN None ELSE ScoreOf(SqaUpsert(mastery, s, c, score), s, c)

\* the failure leaving the changes of the session in the database
SqaFail_persisted(s, aid, score) ==
    LET c == AssignmentConcept[aid]
    IN  /\ last' = Call("sqa", s, c, score, None, None,
                        IF c = None THEN None ELSE ScoreOf(mastery, s, c),
                        SqaSessionMastery(s, c, score), 0, 500)
        /\ prev' = last
        /\ steps' = steps + 1
        /\ result' = SqaError
        /\ student_assignments' =
               [student_assignments EXCEPT
                   ![<<s, aid>>] = [status |-> "graded", score |-> score]]
        /\ mastery' = IF c = None THEN mastery
                      ELSE SqaUpsert(mastery, s, c, score)
        /\ UNCHANGED <<engagement_logs, student_xp>>

\* an exception after student_assignment and the mastery record were changed
\* in the session: db.rollback() drops the changes, then HTTPException(500)
SqaFail(s, aid, score) ==
    LET c == AssignmentConcept[aid]
    IN  /\ last' = Call("sqa", s, c, score, None, None,
                        IF c = None THEN None ELSE ScoreOf(mastery, s, c),
                        SqaSessionMastery(s, c, score), 0, 500)
        /\ prev' = last
        /\ steps' = steps + 1
        /\ result' = SqaError
        /\ UNCHANGED <<mastery, student_assignments, engagement_logs,
                       student_xp>>

\* the response to a first attempt
SqaResponse(aid, score, correct, total, c) ==
    [assignment_id |-> aid, score |-> score, correct |-> correct,
     total |-> total, passed |-> score >= 70 * PctUnit,
     message |-> "Quiz submitted successfully! Your mastery has been updated.",
     mastery_updated |-> c # None]

\* the response to a later attempt
SqaPracticeResponse(aid, score, correct, total) ==
    [assignment_id |-> aid, score |-> score, correct |-> correct,
     total |-> total, passed |-> score >= 70 * PctUnit,
     message |-> "Quiz re-attempted. This score is for practice and does not replace your first attempt."]

\* every submission taken as the first attempt
IsFirstAttempt_always(student_assignment) == TRUE

\* is_first_attempt = student_assignment.score is None
IsFirstAttempt(student_assignment) == student_assignment.score = None

\* POST /assignments/{assignment_id}/quiz/submit with nq questions, na answers
\* of which ncorrect match their question's correct_answer; fails: where the
\* first attempt raises, "none" when it does not
submit_quiz_answers(s, aid, nq, na, ncorrect, fails) ==
    IF nq = 0 \/ na = 0
    THEN SqaRaise(s, aid, 400)
    ELSE IF <<s, aid>> \notin DOMAIN student_assignments
    THEN SqaRaise(s, aid, 404)
    ELSE
    LET score == ((ncorrect * 100) \div nq) * PctUnit
        is_first_attempt == IsFirstAttempt(student_assignments[<<s, aid>>])
        c == AssignmentConcept[aid]
        before == IF c = None THEN None ELSE ScoreOf(mastery, s, c)
    IN  IF ~is_first_attempt
        THEN /\ last' = Call("sqa", s, c, score, None, None, before, before, 0, 200)
             /\ prev' = last
             /\ steps' = steps + 1
             /\ result' = SqaPracticeResponse(aid, score, ncorrect, nq)
             /\ UNCHANGED <<mastery, student_assignments, engagement_logs,
                            student_xp>>
        ELSE IF fails \in SqaFailures
        THEN SqaFail(s, aid, score)
        ELSE /\ student_assignments' =
                    [student_assignments EXCEPT
                        ![<<s, aid>>] = [status |-> "graded", score |-> score]]
             /\ mastery' = IF c = None THEN mastery
                           ELSE SqaUpsert(mastery, s, c, score)
             /\ engagement_logs' = [engagement_logs EXCEPT ![s] = @ + 1]
             /\ student_xp' = award_xp(student_xp, s, 50 + (score \div PctUnit) \div 2)
             /\ last' = Call("sqa", s, c, score, None, None, before,
                             IF c = None THEN None ELSE ScoreOf(mastery', s, c),
                             0, 200)
             /\ prev' = last
             /\ steps' = steps + 1
             /\ result' = SqaResponse(aid, score, ncorrect, nq, c)

\* clear_data(): every table is emptied
clear_data ==
    /\ mastery' = << >>
    /\ student_assignments' = [k \in {} |-> AssignedRow]
    /\ engagement_logs' = [s \in Students |-> 0]
    /\ student_xp' = [s \in Students |-> 0]
    /\ attempts' = << >>
    /\ student_quizzes' = << >>
    /\ quizzes' = << >>
    /\ mastery_scores' = << >>
    /\ last' = Call("clear", 0, 0, None, None, None, None, None, 0, 0)
    /\ prev' = last
    /\ UNCHANGED steps

\* ------------------------------------------------------------------------
\* Specification: calls one after the other
\* ------------------------------------------------------------------------

UpdateMasteryScore ==
    /\ steps < MaxSteps
    /\ \E s \in Students, c \in ConceptIds, score \in Scores,
          qd \in OptDifficulties :
          update_mastery_score(s, c, score, qd)
    /\ UNCHANGED <<req, commits, quiz_vars>>

UpdateMasteryScoreWithIrt ==
    /\ steps < MaxSteps
    /\ \E s \in Students, c \in ConceptIds, score \in Scores,
          b \in Difficulties, a \in Discriminations :
          update_mastery_score_with_irt(s, c, score, b, a)
    /\ UNCHANGED <<req, commits, quiz_vars>>

SubmitQuizAnswers ==
    /\ steps < MaxSteps
    /\ \E s \in Students, aid \in AssignmentIds, nq \in 0..MaxQuestions :
          \E na \in 0..nq : \E ncorrect \in 0..na :
             \E fails \in SqaFailures \cup {"none"} :
                submit_quiz_answers(s, aid, nq, na, ncorrect, fails)
    /\ UNCHANGED <<req, commits, attempts, student_quizzes, quizzes,
                   mastery_scores, request, gemini>>

ClearData ==
    /\ clear_data
    /\ UNCHANGED <<req, commits, result, request, gemini>>

Next ==
    \/ UpdateMasteryScore
    \/ UpdateMasteryScoreWithIrt
    \/ SubmitQuizAnswers
    \/ ClearData

Spec == Init /\ [][Next]_vars

\* ------------------------------------------------------------------------
\* Specification: the student's operations on an assignment
\* ------------------------------------------------------------------------

\* the XP that gamification.update_after_submission may add
SubmissionXp == {0, 10}

\* gamification.update_after_submission(student_id, assignment_id, db)
update_after_submission(xp, s, gain) == [xp EXCEPT ![s] = @ + gain]

\* the response of submit_assignment
SubmitAssignmentResponse(aid) ==
    [message |-> "Assignment submitted successfully", assignment_id |-> aid]

\* submit_assignment: the status is set to SUBMITTED whatever it was, the
\* score of the record is not touched
submit_assignment(s, aid, gain) ==
    IF <<s, aid>> \notin DOMAIN student_assignments
    THEN /\ last' = Call("submit_assignment", s, None, None, None, None,
                         None, None, 404, 404)
         /\ prev' = last
         /\ steps' = steps + 1
         /\ result' = [detail |-> "Assignment not found or not assigned to student"]
         /\ UNCHANGED <<mastery, student_assignments, engagement_logs,
                        student_xp>>
    ELSE /\ student_assignments' =
                [student_assignments EXCEPT ![<<s, aid>>].status = "submitted"]
         /\ engagement_logs' = [engagement_logs EXCEPT ![s] = @ + 1]
         /\ student_xp' = update_after_submission(student_xp, s, gain)
         /\ last' = Call("submit_assignment", s, AssignmentConcept[aid], None,
                         None, None, None, None, 0, 200)
         /\ prev' = last
         /\ steps' = steps + 1
         /\ result' = SubmitAssignmentResponse(aid)
         /\ UNCHANGED mastery

SubmitAssignment ==
    /\ steps < MaxSteps
    /\ \E s \in Students, aid \in AssignmentIds, gain \in SubmissionXp :
          submit_assignment(s, aid, gain)
    /\ UNCHANGED <<req, commits, attempts, student_quizzes, quizzes,
                   mastery_scores, request, gemini>>

NextAssign ==
    \/ SubmitAssignment
    \/ SubmitQuizAnswers

SpecAssign == Init /\ [][NextAssign]_vars

\* ------------------------------------------------------------------------
\* Specification: one call of BayesianKnowledgeTracer.update_mastery
\* ------------------------------------------------------------------------

InitBKT ==
    /\ mastery = << >>
    /\ InitTables

\* bkt_model.update_mastery(prior, correctness), every prior of the grid
BktUpdate ==
    /\ steps = 0
    /\ \E prior \in 0..Scale, correctness \in BOOLEAN :
          last' = Call("bkt", 0, 0,
                       IF correctness THEN 100 * PctUnit ELSE 0,
                       None, None, prior, update_mastery(prior, correctness),
                       0, 0)
    /\ prev' = last
    /\ steps' = steps + 1
    /\ UNCHANGED <<mastery, student_assignments, engagement_logs, student_xp,
                   req, commits, quiz_vars>>

NextBKT == BktUpdate

SpecBKT == InitBKT /\ [][NextBKT]_vars

\* ------------------------------------------------------------------------
\* Specification: one call of update_mastery on any instance of the tracer
\* ------------------------------------------------------------------------

\* guess_rate and slip_rate: 0, the default 0.1, and 1
Rates == {0, guess_rate, Scale}

Tracers == {Tracer(learn_rate, guess, slip) : guess \in Rates, slip \in Rates}

\* tracer.update_mastery(prior, correctness): every prior of the grid for
\* bkt_model, every 50th for the other instances
TracerUpdate ==
    /\ steps = 0
    /\ \E self \in Tracers, correctness \in BOOLEAN :
          \E prior \in (IF self = bkt_model THEN 0..Scale ELSE ThetaGrid) :
             /\ last' = Call("tracer", 0, 0,
                             IF correctness THEN 100 * PctUnit ELSE 0,
                             None, None, prior,
                             TracerUpdateMastery(self, prior, correctness), 0, 0)
             /\ result' = [self |-> self,
                           denominator |-> Denominator(self, prior, correctness)]
    /\ prev' = last
    /\ steps' = steps + 1
    /\ UNCHANGED <<mastery, student_assignments, engagement_logs, student_xp,
                   req, commits, attempts, student_quizzes, quizzes,
                   mastery_scores, request, gemini>>

NextTracer == TracerUpdate

SpecTracer == InitBKT /\ [][NextTracer]_vars

\* ------------------------------------------------------------------------
\* Specification: one call of update_mastery_score_with_irt, any discrimination
\* ------------------------------------------------------------------------

InitIRT ==
    /\ mastery \in {<< >>} \cup
           {<<[student_id |-> 1, concept_id |-> 1, mastery_score |-> ToScore(t)]>> :
               t \in ThetaGrid}
    /\ InitTables

IrtUpdate ==
    /\ steps = 0
    /\ \E score \in Scores, b \in Difficulties, a \in AnyDiscriminations :
          update_mastery_score_with_irt(1, 1, score, b, a)
    /\ UNCHANGED <<req, commits, quiz_vars>>

NextIRT == IrtUpdate

SpecIRT == InitIRT /\ [][NextIRT]_vars

\* ------------------------------------------------------------------------
\* Specification: new_theta of one theta on two questions
\* ------------------------------------------------------------------------

\* question_irt_difficulty: every tenth of [0,1]
DifficultyGrid == {1000 * i : i \in 0..10}

\* the new_theta of update_mastery_score_with_irt for one theta, one
\* observation and one discrimination on a question of difficulty b1 (kept in
\* prev) and on a question of difficulty b2 (kept in last)
IrtCompare ==
    /\ steps = 0
    /\ \E theta \in ThetaGrid, correctness \in BOOLEAN,
          a \in Discriminations, b1 \in DifficultyGrid, b2 \in DifficultyGrid :
          LET score == IF correctness THEN 100 * PctUnit ELSE 0
          IN  /\ prev' = Call("theta", 0, 0, score, b1, a, theta,
                              IrtTheta(theta, correctness, b1, a), 0, 0)
              /\ last' = Call("theta", 0, 0, score, b2, a, theta,
                              IrtTheta(theta, correctness, b2, a), 0, 0)
    /\ steps' = steps + 1
    /\ UNCHANGED <<mastery, student_assignments, engagement_logs, student_xp,
                   req, commits, quiz_vars>>

NextIRTPair == IrtCompare

SpecIRTPair == InitBKT /\ [][NextIRTPair]_vars

\* ------------------------------------------------------------------------
\* Specification: two mastery updates served at the same time
\* ------------------------------------------------------------------------

\* new_mastery * 100 / new_theta * 100 as the function computes it from the
\* score its query returned
ComputeNew(op, read, score, b, a) ==
    IF op = "ums"
    THEN IF read # None THEN UmsExisting(read, Correctness(score), b)
         ELSE UmsNew(Correctness(score), b)
    ELSE IF read # None THEN IrtExisting(read, Correctness(score), b, a)
         ELSE IrtNew(Correctness(score), b, a)

\* the row is written only when the row changed since this session read it
FlushValue_first_wins(stored, read, new) ==
    IF stored # read THEN stored ELSE new

\* db.commit() after "mastery_record.mastery_score = new": the flush emits
\* UPDATE ... SET mastery_score = new for the row, unless new equals the value
\* the session loaded (no net change, no UPDATE)
FlushValue(stored, read, new) ==
    IF new = read THEN stored ELSE new

\* the composite key (student_id, concept_id) rejects a second row of a pair
KeyConflict(tbl, s, c) == QueryFirst(tbl, s, c) # 0

\* the function up to db.commit(): the query and the new score, in the session
BeginRequest(w) ==
    /\ req[w].pc = "idle"
    /\ \E op \in {"ums", "irt"}, s \in Students, c \in ConceptIds,
          score \in Scores, b \in OptDifficulties, a \in Discriminations :
          /\ op = "ums" => a = 10000
          /\ op = "irt" => b # None
          /\ LET row == QueryFirst(mastery, s, c)
                 read == ScoreOf(mastery, s, c)
             IN  req' = [req EXCEPT ![w] =
                     [pc |-> "read", op |-> op, student |-> s, concept |-> c,
                      score |-> score, difficulty |-> b,
                      discrimination |-> IF op = "irt" THEN a ELSE None,
                      row |-> row, read |-> read,
                      new |-> ComputeNew(op, read, score, b, a),
                      seen |-> Len(commits)]]
    /\ UNCHANGED <<mastery, student_assignments, engagement_logs, student_xp,
                   last, prev, steps, commits, quiz_vars>>

\* db.commit()
CommitRequest(w) ==
    /\ req[w].pc = "read"
    /\ LET r == req[w]
       IN  IF r.row # 0
           THEN /\ mastery' = [mastery EXCEPT ![r.row].mastery_score =
                                  FlushValue(@, r.read, r.new)]
                /\ req' = [req EXCEPT ![w].pc = "done"]
                /\ commits' = Append(commits, w)
           ELSE IF KeyConflict(mastery, r.student, r.concept)
           THEN \* IntegrityError: the INSERT fails and the call raises
                /\ req' = [req EXCEPT ![w].pc = "failed"]
                /\ UNCHANGED <<mastery, commits>>
           ELSE /\ mastery' = Append(mastery,
                                  [student_id |-> r.student,
                                   concept_id |-> r.concept,
                                   mastery_score |-> r.new])
                /\ req' = [req EXCEPT ![w].pc = "done"]
                /\ commits' = Append(commits, w)
    /\ UNCHANGED <<student_assignments, engagement_logs, student_xp, last, prev,
                   steps, quiz_vars>>

Begin == \E w \in Workers : BeginRequest(w)
Commit == \E w \in Workers : CommitRequest(w)

NextConc == Begin \/ Commit

SpecConc == Init /\ [][NextConc]_vars

\* ------------------------------------------------------------------------
\* The quiz router
\* ------------------------------------------------------------------------

\* quizzes that exist at most
MaxQuizzes == 3

\* a dictionary key that is an int, and one that is a str
IntKey(q) == <<"int", q>>
StrKey(q) == <<"str", q>>

\* d.get(k): << >> for None, <<v>> for the value v
DictGet(d, k) == IF k \in DOMAIN d THEN <<d[k]>> ELSE << >>

\* the answers a student may give to a question
AnswerValues == {"A", "B"}

\* StudentQuizSubmission.answers: Dict[int, str], the keys are ints once the
\* body is validated
Submissions ==
    {[k \in {IntKey(q) : q \in qs} |-> a] : qs \in SUBSET {1, 2, 3}, a \in AnswerValues}

\* table Question, joined to Attempt by question_id: question -> concept_id
Questions == <<1, 2, 1>>

\* the quizzes that exist before the first request: their questions carry a
\* concept_id
SeededQuizzes ==
    << <<[id |-> 1, concept_id |-> 1, correct_answer |-> "A"],
         [id |-> 2, concept_id |-> 2, correct_answer |-> "A"]>>,
       <<[id |-> 3, concept_id |-> 1, correct_answer |-> "A"]>> >>

RECURSIVE QuestionCount(_)
QuestionCount(qz) ==
    IF qz = << >> THEN 0 ELSE Len(Head(qz)) + QuestionCount(Tail(qz))

\* the first StudentQuizzes row of (s, quiz_id), 0 when there is none
StudentQuizFirst(tbl, s, quiz_id) ==
    LET hits == {i \in 1..Len(tbl) :
                    tbl[i].student_id = s /\ tbl[i].quiz_id = quiz_id}
    IN  IF hits = {} THEN 0 ELSE CHOOSE i \in hits : \A j \in hits : i <= j

\* student_answer == question.correct_answer if student_answer else False
IsCorrect(student_answer, correct_answer) ==
    IF student_answer # << >> /\ student_answer[1] # ""
    THEN student_answer[1] = correct_answer
    ELSE FALSE

\* the loop over db_quiz.questions with an Attempt only for a question that
\* has an answer
Grade_answered_only(s, questions, answers) ==
    SelectSeq([i \in 1..Len(questions) |->
                  [student_id |-> s, question_id |-> questions[i].id,
                   is_correct |->
                       IsCorrect(DictGet(answers, StrKey(questions[i].id)),
                                 questions[i].correct_answer)]],
              LAMBDA a : DictGet(answers, StrKey(a.question_id)) # << >>)

\* the loop over db_quiz.questions: one Attempt per question
Grade(s, questions, answers) ==
    [i \in 1..Len(questions) |->
        [student_id |-> s, question_id |-> questions[i].id,
         is_correct |->
             IsCorrect(DictGet(answers, StrKey(questions[i].id)),
                       questions[i].correct_answer)]]

\* the keys of concept_attempts, in the order of their first question
RECURSIVE ConceptsOf(_)
ConceptsOf(questions) ==
    IF questions = << >> THEN << >>
    ELSE LET rest == ConceptsOf(SubSeq(questions, 1, Len(questions) - 1))
             c == questions[Len(questions)].concept_id
         IN  IF \E i \in 1..Len(rest) : rest[i] = c THEN rest
             ELSE Append(rest, c)

\* the share of the incorrect attempts instead of the correct ones
MasteryScore_incorrect_share(tbl, s, c) ==
    LET all_attempts == {i \in 1..Len(tbl) :
                            /\ tbl[i].student_id = s
                            /\ tbl[i].question_id \in DOMAIN Questions
                            /\ Questions[tbl[i].question_id] = c}
        total_wrong == Cardinality({i \in all_attempts : ~tbl[i].is_correct})
        total_attempts_count == Cardinality(all_attempts)
    IN  IF total_attempts_count > 0
        THEN Round(total_wrong * 100 * PctUnit, total_attempts_count)
        ELSE 0

\* (total_correct / total_attempts_count) * 100 over the student's attempts on
\* the questions of the concept, 0 when there is none
MasteryScore(tbl, s, c) ==
    LET all_attempts == {i \in 1..Len(tbl) :
                            /\ tbl[i].student_id = s
                            /\ tbl[i].question_id \in DOMAIN Questions
                            /\ Questions[tbl[i].question_id] = c}
        total_correct == Cardinality({i \in all_attempts : tbl[i].is_correct})
        total_attempts_count == Cardinality(all_attempts)
    IN  IF total_attempts_count > 0
        THEN Round(total_correct * 100 * PctUnit, total_attempts_count)
        ELSE 0

\* "Recalculate mastery for each concept": update or create its MasteryScores row
RECURSIVE RecalculateMastery(_, _, _, _)
RecalculateMastery(tbl, s, concepts, visible) ==
    IF concepts = << >> THEN tbl
    ELSE RecalculateMastery(
             Upsert(tbl, s, Head(concepts), MasteryScore(visible, s, Head(concepts))),
             s, Tail(concepts), visible)

\* a quiz-router call that raises HTTPException(code) or fails with 500:
\* nothing is committed
QuizRaise(op, s, quiz_id, body, code) ==
    /\ last' = Call(op, s, quiz_id, None, None, None, None, None, code, code)
    /\ prev' = last
    /\ steps' = steps + 1
    /\ result' = None
    /\ request' = body
    /\ UNCHANGED <<attempts, student_quizzes, quizzes, mastery_scores>>

\* the status check left out: every submission is graded
AlreadySubmitted_never(student_quiz) == FALSE

\* if student_quiz.status == "submitted"
AlreadySubmitted(student_quiz) == student_quiz.status = "submitted"

\* POST /api/quizzes/{quiz_id}/submit; autoflush: whether the session sends the
\* pending Attempt rows before a query
submit_quiz(s, quiz_id, answers, autoflush) ==
    LET row == StudentQuizFirst(student_quizzes, s, quiz_id)
    IN  IF row = 0 THEN QuizRaise("submit_quiz", s, quiz_id, answers, 403)
        ELSE IF AlreadySubmitted(student_quizzes[row])
        THEN QuizRaise("submit_quiz", s, quiz_id, answers, 400)
        ELSE IF quiz_id \notin 1..Len(quizzes)
        THEN QuizRaise("submit_quiz", s, quiz_id, answers, 404)
        ELSE
        LET questions == quizzes[quiz_id]
            graded == Grade(s, questions, answers)
            score == Cardinality({i \in 1..Len(graded) : graded[i].is_correct})
            total_questions == Len(questions)
            percentage_score ==
                IF total_questions > 0
                THEN Round(score * 100 * PctUnit, total_questions)
                ELSE 0
            concepts == ConceptsOf(questions)
            visible == IF autoflush THEN attempts \o graded ELSE attempts
        IN  IF \E i \in 1..Len(concepts) : concepts[i] = None
            THEN \* MasteryScores(concept_id=None): the INSERT violates the
                 \* primary key, the request fails and commits nothing
                 QuizRaise("submit_quiz", s, quiz_id, answers, 500)
            ELSE /\ attempts' = attempts \o graded
                 /\ student_quizzes' =
                        [student_quizzes EXCEPT
                            ![row].status = "submitted",
                            ![row].score = percentage_score]
                 /\ mastery_scores' =
                        RecalculateMastery(mastery_scores, s, concepts, visible)
                 /\ result' = student_quizzes'[row]
                 /\ request' = answers
                 /\ last' = Call("submit_quiz", s, quiz_id, percentage_score,
                                 None, None, Len(attempts), Len(attempts'),
                                 0, 200)
                 /\ prev' = last
                 /\ steps' = steps + 1
                 /\ UNCHANGED quizzes

\* POST /api/quizzes/: a quiz of nq questions; no question gets a concept_id
create_quiz(nq) ==
    /\ quizzes' = Append(quizzes,
           [i \in 1..nq |-> [id |-> QuestionCount(quizzes) + i,
                             concept_id |-> None, correct_answer |-> "A"]])
    /\ result' = Len(quizzes')
    /\ request' = nq
    /\ last' = Call("create_quiz", 0, Len(quizzes'), None, None, None, None,
                    None, 0, 200)
    /\ prev' = last
    /\ steps' = steps + 1
    /\ UNCHANGED <<attempts, student_quizzes, mastery_scores>>

\* POST /api/quizzes/assign: a StudentQuizzes row for every student enrolled
assign_quiz_to_classes(quiz_id) ==
    IF quiz_id \notin 1..Len(quizzes)
    THEN QuizRaise("assign_quiz_to_classes", 0, quiz_id, quiz_id, 404)
    ELSE /\ student_quizzes' = student_quizzes \o
                [i \in 1..Cardinality(Students) |->
                    [student_id |-> i, quiz_id |-> quiz_id,
                     status |-> "assigned", score |-> None]]
         /\ result' = Cardinality(Students)
         /\ request' = quiz_id
         /\ last' = Call("assign_quiz_to_classes", 0, quiz_id, None, None, None,
                         None, None, 0, 201)
         /\ prev' = last
         /\ steps' = steps + 1
         /\ UNCHANGED <<attempts, quizzes, mastery_scores>>

\* GET /api/quizzes/student: the student's StudentQuizzes rows
get_student_quizzes(s) ==
    /\ result' = SelectSeq(student_quizzes, LAMBDA r : r.student_id = s)
    /\ request' = None
    /\ last' = Call("get_student_quizzes", s, None, None, None, None, None,
                    None, 0, 200)
    /\ prev' = last
    /\ steps' = steps + 1
    /\ UNCHANGED <<attempts, student_quizzes, quizzes, mastery_scores>>

\* GET /api/quizzes/{quiz_id}: the quiz, for a student it is assigned to
get_quiz_for_student(s, quiz_id) ==
    IF StudentQuizFirst(student_quizzes, s, quiz_id) = 0
    THEN QuizRaise("get_quiz_for_student", s, quiz_id, None, 403)
    ELSE IF quiz_id \notin 1..Len(quizzes)
    THEN QuizRaise("get_quiz_for_student", s, quiz_id, None, 404)
    ELSE /\ result' = quizzes[quiz_id]
         /\ request' = None
         /\ last' = Call("get_quiz_for_student", s, quiz_id, None, None, None,
                         None, None, 0, 200)
         /\ prev' = last
         /\ steps' = steps + 1
         /\ UNCHANGED <<attempts, student_quizzes, quizzes, mastery_scores>>

\* ------------------------------------------------------------------------
\* Specification: requests to the quiz router, one after the other
\* ------------------------------------------------------------------------

QuizIds == 1..(MaxQuizzes + 1)

grade_vars == <<mastery, student_assignments, engagement_logs, student_xp,
                req, commits, gemini>>

\* the seeded quizzes, assigned to the student
InitQuiz ==
    /\ mastery = << >>
    /\ student_assignments = [k \in Students \X AssignedIds |-> AssignedRow]
    /\ engagement_logs = [s \in Students |-> 0]
    /\ student_xp = [s \in Students |-> 0]
    /\ last = NoCall
    /\ prev = NoCall
    /\ steps = 0
    /\ req = [w \in Workers |-> IdleRequest]
    /\ commits = << >>
    /\ attempts = << >>
    /\ student_quizzes = [i \in 1..Len(SeededQuizzes) |->
                              [student_id |-> 1, quiz_id |-> i,
                               status |-> "assigned", score |-> None]]
    /\ quizzes = SeededQuizzes
    /\ mastery_scores = << >>
    /\ result = None
    /\ request = None
    /\ gemini = NoInvocation

SubmitQuiz ==
    /\ steps < MaxSteps
    /\ \E s \in Students, quiz_id \in QuizIds, answers \in Submissions,
          autoflush \in BOOLEAN :
          submit_quiz(s, quiz_id, answers, autoflush)
    /\ UNCHANGED grade_vars

CreateQuiz ==
    /\ steps < MaxSteps
    /\ Len(quizzes) < MaxQuizzes
    /\ \E nq \in 0..1 : create_quiz(nq)
    /\ UNCHANGED grade_vars

AssignQuizToClasses ==
    /\ steps < MaxSteps
    /\ \E quiz_id \in QuizIds : assign_quiz_to_classes(quiz_id)
    /\ UNCHANGED grade_vars

GetStudentQuizzes ==
    /\ steps < MaxSteps
    /\ \E s \in Students : get_student_quizzes(s)
    /\ UNCHANGED grade_vars

GetQuizForStudent ==
    /\ steps < MaxSteps
    /\ \E s \in Students, quiz_id \in QuizIds : get_quiz_for_student(s, quiz_id)
    /\ UNCHANGED grade_vars

NextQuiz ==
    \/ SubmitQuiz
    \/ CreateQuiz
    \/ AssignQuizToClasses
    \/ GetStudentQuizzes
    \/ GetQuizForStudent

SpecQuiz == InitQuiz /\ [][NextQuiz]_vars

\* ------------------------------------------------------------------------
\* Dashboard and reporting operations
\* ------------------------------------------------------------------------

\* Concepts.prerequisite_ids: concept 2 has the prerequisite 1
ConceptPrerequisites == << << >>, <<1>> >>

\* db.query(StudentMastery).filter(student_id ==).all()
MasteryRecords(tbl, s) == SelectSeq(tbl, LAMBDA r : r.student_id = s)

RECURSIVE SumScores(_)
SumScores(records) ==
    IF records = << >> THEN 0
    ELSE Head(records).mastery_score + SumScores(Tail(records))

\* np.mean of the mastery scores
MeanScore(records) == Round(SumScores(records), Len(records))

\* sorted(mastery_records, key=mastery_score)[0]: the first of the lowest
Weakest(records) ==
    records[CHOOSE i \in 1..Len(records) :
                \A j \in 1..Len(records) :
                    \/ records[i].mastery_score < records[j].mastery_score
                    \/ records[i].mastery_score = records[j].mastery_score /\ i <= j]

AdaptiveAssignment(assignment_id, title, difficulty_level, estimated_time) ==
    [assignment_id |-> assignment_id, title |-> title,
     difficulty_level |-> difficulty_level, estimated_time |-> estimated_time]

\* column prerequisite_ids of table Concepts: NULL, '', a text that is not
\* JSON, or the JSON text of a list of ids
PrerequisiteIds(text, ids) == [text |-> text, ids |-> ids]

\* table Concepts as ConceptPrerequisites gives it: NULL for no prerequisite
SeededConcepts ==
    [c \in DOMAIN ConceptPrerequisites |->
        IF ConceptPrerequisites[c] = << >>
        THEN PrerequisiteIds("null", << >>)
        ELSE PrerequisiteIds("list", ConceptPrerequisites[c])]

\* "if concept.prerequisite_ids": a text that is not empty
HasPrerequisiteIds(column) == column.text \in {"invalid", "list"}

\* the first prerequisite that is not mastered (no record or a score < 70)
\* and is a row of Concepts, 0 when there is none
RECURSIVE FirstFoundation(_, _, _, _)
FirstFoundation(tbl, s, prereq_ids, concepts) ==
    IF prereq_ids = << >> THEN 0
    ELSE LET prereq_mastery == ScoreOf(tbl, s, Head(prereq_ids))
         IN  IF /\ prereq_mastery = None \/ prereq_mastery < 70 * PctUnit
                /\ Head(prereq_ids) \in DOMAIN concepts
             THEN Head(prereq_ids)
             ELSE FirstFoundation(tbl, s, Tail(prereq_ids), concepts)

FirstUnmastered(tbl, s, prereq_ids) ==
    FirstFoundation(tbl, s, prereq_ids, SeededConcepts)

\* the first concept that has c in its list of prerequisites and is not
\* mastered (no record or a score < 90), 0 when there is none
NextConceptIn(tbl, s, c, concepts) ==
    LET next == {n \in DOMAIN concepts :
                    /\ concepts[n].text = "list"
                    /\ \E i \in 1..Len(concepts[n].ids) : concepts[n].ids[i] = c
                    /\ \/ ScoreOf(tbl, s, n) = None
                       \/ ScoreOf(tbl, s, n) < 90 * PctUnit}
    IN  IF next = {} THEN 0 ELSE CHOOSE n \in next : \A m \in next : n <= m

NextConcept(tbl, s, c) == NextConceptIn(tbl, s, c, SeededConcepts)

\* the list without the cold-start branch: empty for a student with no record
AdaptiveAssignments_no_cold_start(tbl, s) ==
    LET mastery_records == MasteryRecords(tbl, s)
    IN  IF mastery_records = << >> THEN << >>
        ELSE <<AdaptiveAssignment(2, "Continued Learning", 3, 45)>>

\* the list get_adaptive_assignments returns, table Concepts being concepts
AdaptivePathway(tbl, s, concepts) ==
    LET mastery_records == MasteryRecords(tbl, s)
    IN  IF mastery_records = << >>
        THEN <<AdaptiveAssignment(1, "Diagnostic Assessment", 2, 20)>>
        ELSE
        LET weakest_concept == Weakest(mastery_records)
            c == weakest_concept.concept_id
            level == Max(1, weakest_concept.mastery_score \div (20 * PctUnit))
            reinforcement == AdaptiveAssignment(c * 10 + 1, "Reinforcement", level, 30)
        IN  IF weakest_concept.mastery_score < 50 * PctUnit
            THEN IF c \in DOMAIN concepts /\ HasPrerequisiteIds(concepts[c])
                 THEN IF concepts[c].text = "invalid"
                      THEN \* except json.JSONDecodeError
                           <<reinforcement>>
                      ELSE IF concepts[c].ids = << >>
                      THEN \* "if prereq_ids:" has no else
                           << >>
                      ELSE
                      LET prereq_id ==
                              FirstFoundation(tbl, s, concepts[c].ids, concepts)
                      IN  IF prereq_id # 0
                          THEN <<AdaptiveAssignment(prereq_id * 10 + 1,
                                                    "Foundation", level, 30)>>
                          ELSE <<reinforcement>>
                 ELSE <<reinforcement>>
            ELSE IF weakest_concept.mastery_score >= 90 * PctUnit
            THEN IF NextConceptIn(tbl, s, c, concepts) # 0
                 THEN <<AdaptiveAssignment(NextConceptIn(tbl, s, c, concepts) * 10 + 1,
                                           "Advanced", 4, 45)>>
                 ELSE <<AdaptiveAssignment(2, "Advanced Challenge", 4, 60)>>
            ELSE <<AdaptiveAssignment(2, "Continued Learning", 3, 45)>>

\* the list get_adaptive_assignments returns
AdaptiveAssignments(tbl, s) == AdaptivePathway(tbl, s, SeededConcepts)

\* a call that reads and returns: no table is written
Returns(op, s, value) ==
    /\ result' = value
    /\ last' = Call(op, s, None, None, None, None, None, None, 0, 200)
    /\ prev' = last
    /\ steps' = steps + 1
    /\ UNCHANGED <<mastery, student_assignments, engagement_logs, student_xp,
                   req, commits, attempts, student_quizzes, quizzes,
                   mastery_scores, request, gemini>>

\* get_adaptive_assignments creating the record of concept 1 at 0 for a
\* student who has none
get_adaptive_assignments_creating(s) ==
    /\ result' = AdaptiveAssignments(mastery, s)
    /\ mastery' = IF MasteryRecords(mastery, s) = << >>
                  THEN Upsert(mastery, s, 1, 0) ELSE mastery
    /\ last' = Call("get_adaptive_assignments", s, None, None, None, None,
                    None, None, 0, 200)
    /\ prev' = last
    /\ steps' = steps + 1
    /\ UNCHANGED <<student_assignments, engagement_logs, student_xp,
                   req, commits, attempts, student_quizzes, quizzes,
                   mastery_scores, request, gemini>>

get_adaptive_assignments(s) ==
    Returns("get_adaptive_assignments", s, AdaptiveAssignments(mastery, s))

\* a recommendation: its concept, priority and estimated_time
Recommendation(c, priority, estimated_time) ==
    [concept_id |-> c, priority |-> priority, estimated_time |-> estimated_time]

\* the ids of table Concepts, in order
AllConcepts == [i \in 1..Len(ConceptPrerequisites) |-> i]

\* recommend_learning_path: the foundational concepts for a new student; else
\* the weak areas (mastery < 70), then the concepts neither mastered nor
\* recommended.  No concept name of the table contains the first four letters
\* of another, so no advanced extension is added; the final sort by priority
\* and estimated_time keeps this order.
recommend_learning_path(s) ==
    LET mastery_records == MasteryRecords(mastery, s)
        weak_areas == SelectSeq(mastery_records,
                          LAMBDA m : /\ m.mastery_score < 70 * PctUnit
                                     /\ m.concept_id \in DOMAIN ConceptPrerequisites)
        high == [i \in 1..Len(weak_areas) |->
                    Recommendation(weak_areas[i].concept_id, "high", 90)]
        mastered_concept_ids ==
            {mastery_records[i].concept_id : i \in
                {j \in 1..Len(mastery_records) :
                    mastery_records[j].mastery_score >= 70 * PctUnit}}
        recommended == {high[i].concept_id : i \in 1..Len(high)}
        next == SelectSeq(AllConcepts,
                    LAMBDA c : c \notin mastered_concept_ids /\ c \notin recommended)
        medium == [i \in 1..Len(next) |-> Recommendation(next[i], "medium", 120)]
    IN  Returns("recommend_learning_path", s,
            IF mastery_records = << >>
            THEN [i \in 1..Min(3, Len(AllConcepts)) |->
                     Recommendation(AllConcepts[i], "high", 60)]
            ELSE high \o medium)

\* get_student_learning_profile: the strengths (mastery >= 80), the weaknesses
\* (mastery < 60) and the assignment counts
get_student_learning_profile(s) ==
    LET mastery_records == MasteryRecords(mastery, s)
        known == SelectSeq(mastery_records,
                     LAMBDA r : r.concept_id \in DOMAIN ConceptPrerequisites)
        mine == {k \in DOMAIN student_assignments : k[1] = s}
    IN  Returns("get_student_learning_profile", s,
            [strengths |-> SelectSeq(known,
                               LAMBDA r : r.mastery_score >= 80 * PctUnit),
             weaknesses |-> SelectSeq(known,
                                LAMBDA r : r.mastery_score < 60 * PctUnit),
             total_assignments |-> Cardinality(mine),
             completed_assignments |->
                 Cardinality({k \in mine :
                                 student_assignments[k].status = "submitted"})])

\* analyze_learning_speed: the mean step between the mastery scores of
\* consecutive concepts, and the speed it stands for
analyze_learning_speed(s) ==
    LET mastery_records == MasteryRecords(mastery, s)
        sorted_records ==
            [i \in 1..Len(mastery_records) |->
                mastery_records[CHOOSE j \in 1..Len(mastery_records) :
                    Cardinality({k \in 1..Len(mastery_records) :
                        mastery_records[k].concept_id
                            < mastery_records[j].concept_id}) = i - 1]]
        n == Len(sorted_records)
        \* the mean of the consecutive differences, rounded away from a half
        total == IF n >= 2
                 THEN sorted_records[n].mastery_score
                      - sorted_records[1].mastery_score
                 ELSE 0
        avg_improvement ==
            IF n < 2 THEN 0
            ELSE IF total >= 0 THEN Round(total, n - 1)
            ELSE 0 - Round(0 - total, n - 1)
        learning_speed ==
            IF n < 2 THEN "undetermined"
            ELSE IF avg_improvement > 10 * PctUnit THEN "rapid"
            ELSE IF avg_improvement > 5 * PctUnit THEN "fast"
            ELSE IF avg_improvement > 0 THEN "moderate"
            ELSE "slow"
    IN  Returns("analyze_learning_speed", s,
            [learning_speed |-> learning_speed,
             mastery_progression_rate |-> avg_improvement,
             pacing_recommendation |->
                 IF learning_speed = "rapid" THEN "accelerate"
                 ELSE IF learning_speed = "slow" THEN "decelerate"
                 ELSE "maintain"])

\* the students flagged for a low average mastery (< 60)
StrugglingStudents(tbl) ==
    {st \in Students :
        /\ MasteryRecords(tbl, st) # << >>
        /\ MeanScore(MasteryRecords(tbl, st)) < 60 * PctUnit}

\* detect_struggling_students: the teacher's students of low average mastery
detect_struggling_students ==
    Returns("detect_struggling_students", 0, StrugglingStudents(mastery))

\* get_class_dashboard: per concept the mean, minimum and maximum mastery and
\* the number of students, the leaderboard and the struggling students
get_class_dashboard ==
    LET concept_ids == {mastery[i].concept_id : i \in 1..Len(mastery)}
        scores(c) == SelectSeq(mastery, LAMBDA r : r.concept_id = c)
        class_mastery_summary ==
            [c \in concept_ids |->
                [avg_score |-> MeanScore(scores(c)),
                 min_score |-> Weakest(scores(c)).mastery_score,
                 student_count |-> Len(scores(c))]]
    IN  Returns("get_class_dashboard", 0,
            [class_mastery_summary |-> class_mastery_summary,
             leaderboard |-> student_xp,
             struggling_students |-> StrugglingStudents(mastery)])

\* ------------------------------------------------------------------------
\* Specification: graded updates and dashboard reads, one after the other
\* ------------------------------------------------------------------------

GetAdaptiveAssignments ==
    steps < MaxSteps /\ \E s \in Students : get_adaptive_assignments(s)

RecommendLearningPath ==
    steps < MaxSteps /\ \E s \in Students : recommend_learning_path(s)

GetStudentLearningProfile ==
    steps < MaxSteps /\ \E s \in Students : get_student_learning_profile(s)

AnalyzeLearningSpeed ==
    steps < MaxSteps /\ \E s \in Students : analyze_learning_speed(s)

DetectStrugglingStudents == steps < MaxSteps /\ detect_struggling_students

GetClassDashboard == steps < MaxSteps /\ get_class_dashboard

NextDash ==
    \/ UpdateMasteryScore
    \/ UpdateMasteryScoreWithIrt
    \/ SubmitQuizAnswers
    \/ GetAdaptiveAssignments
    \/ RecommendLearningPath
    \/ GetStudentLearningProfile
    \/ AnalyzeLearningSpeed
    \/ DetectStrugglingStudents
    \/ GetClassDashboard

SpecDash == Init /\ [][NextDash]_vars

\* ------------------------------------------------------------------------
\* Specification: two submit_quiz requests served at the same time
\* ------------------------------------------------------------------------

\* a submit_quiz request that ended before grading, with an HTTPException
QuizRejected(s, quiz_id, code) ==
    [pc |-> "failed", op |-> "submit_quiz", student |-> s, concept |-> quiz_id,
     code |-> code]

\* what the loop of lines 193-220 holds in the session for a concept: the row
\* it found (0: none, a new row is added) and the score it computed
MasteryWrites(s, concepts, visible) ==
    [i \in 1..Len(concepts) |->
        [concept_id |-> concepts[i],
         row |-> QueryFirst(mastery_scores, s, concepts[i]),
         read |-> ScoreOf(mastery_scores, s, concepts[i]),
         new |-> MasteryScore(visible, s, concepts[i])]]

\* another session has sent rows that it has not committed: SQLite gives the
\* write lock to one connection at a time
WriteLocked(w) ==
    \E v \in Workers \ {w} : req[v].pc = "graded" /\ req[v].flushed

\* submit_quiz up to "await generate_concept_review(...)": the checks, the
\* grading and the mastery scores, all in the session of the request. The
\* coroutine is suspended there while call_gemini_api waits between attempts.
BeginSubmitQuiz(w) ==
    /\ req[w].pc = "idle"
    /\ \E s \in Students, quiz_id \in QuizIds, answers \in Submissions,
          autoflush \in BOOLEAN :
          LET row == StudentQuizFirst(student_quizzes, s, quiz_id)
          IN  req' = [req EXCEPT ![w] =
                  IF row = 0 THEN QuizRejected(s, quiz_id, 403)
                  ELSE IF AlreadySubmitted(student_quizzes[row])
                  THEN QuizRejected(s, quiz_id, 400)
                  ELSE IF quiz_id \notin 1..Len(quizzes)
                  THEN QuizRejected(s, quiz_id, 404)
                  ELSE IF autoflush /\ WriteLocked(w)
                  THEN \* OperationalError: database is locked
                       QuizRejected(s, quiz_id, 500)
                  ELSE
                  LET questions == quizzes[quiz_id]
                      graded == Grade(s, questions, answers)
                      score == Cardinality({i \in 1..Len(graded) :
                                               graded[i].is_correct})
                  IN  [pc |-> "graded", op |-> "submit_quiz", student |-> s,
                       concept |-> quiz_id, row |-> row, graded |-> graded,
                       score |-> IF Len(questions) > 0
                                 THEN Round(score * 100 * PctUnit, Len(questions))
                                 ELSE 0,
                       writes |-> MasteryWrites(s, ConceptsOf(questions),
                                      IF autoflush THEN attempts \o graded
                                      ELSE attempts),
                       flushed |-> autoflush]]
    /\ UNCHANGED <<mastery, student_assignments, engagement_logs, student_xp,
                   last, prev, steps, commits, attempts, student_quizzes,
                   quizzes, mastery_scores, result, request, gemini>>

\* the rows of MasteryScores after the flush of the session's writes
RECURSIVE FlushMastery(_, _, _)
FlushMastery(tbl, s, writes) ==
    IF writes = << >> THEN tbl
    ELSE LET wr == Head(writes)
         IN  FlushMastery(
                 IF wr.row # 0
                 THEN [tbl EXCEPT ![wr.row].mastery_score =
                          FlushValue(@, wr.read, wr.new)]
                 ELSE Append(tbl, [student_id |-> s,
                                   concept_id |-> wr.concept_id,
                                   mastery_score |-> wr.new]),
                 s, Tail(writes))

\* the rest of submit_quiz: db.commit()
CommitSubmitQuiz(w) ==
    /\ req[w].pc = "graded"
    /\ LET r == req[w]
       IN  IF \/ WriteLocked(w)
              \/ \E i \in 1..Len(r.writes) :
                    \/ r.writes[i].concept_id = None
                    \/ /\ r.writes[i].row = 0
                       /\ KeyConflict(mastery_scores, r.student,
                                      r.writes[i].concept_id)
           THEN \* database is locked, or IntegrityError on the key of
                \* MasteryScores: nothing is committed
                /\ req' = [req EXCEPT ![w] =
                              QuizRejected(r.student, r.concept, 500)]
                /\ UNCHANGED <<attempts, student_quizzes, mastery_scores,
                               commits>>
           ELSE /\ attempts' = attempts \o r.graded
                /\ student_quizzes' =
                       [student_quizzes EXCEPT
                           ![r.row].status = "submitted",
                           ![r.row].score = r.score]
                /\ mastery_scores' =
                       FlushMastery(mastery_scores, r.student, r.writes)
                /\ req' = [req EXCEPT ![w] =
                       [pc |-> "done", op |-> "submit_quiz",
                        student |-> r.student, concept |-> r.concept,
                        code |-> 200]]
                /\ commits' = Append(commits, w)
    /\ UNCHANGED <<mastery, student_assignments, engagement_logs, student_xp,
                   last, prev, steps, quizzes, result, request, gemini>>

\* the response is sent, the server takes the next request
RespondSubmitQuiz(w) ==
    /\ req[w].pc \in {"done", "failed"}
    /\ req' = [req EXCEPT ![w] = IdleRequest]
    /\ UNCHANGED <<mastery, student_assignments, engagement_logs, student_xp,
                   last, prev, steps, commits, attempts, student_quizzes,
                   quizzes, mastery_scores, result, request, gemini>>

BeginQuiz == \E w \in Workers : BeginSubmitQuiz(w)
CommitQuiz == \E w \in Workers : CommitSubmitQuiz(w)
RespondQuiz == \E w \in Workers : RespondSubmitQuiz(w)

NextQuizRace == BeginQuiz \/ CommitQuiz \/ RespondQuiz

SpecQuizRace == InitQuiz /\ [][NextQuizRace]_vars

\* ------------------------------------------------------------------------
\* Specification: get_adaptive_assignments over any table Concepts
\* ------------------------------------------------------------------------

\* the values of column prerequisite_ids: NULL, '', not JSON, and the lists
\* [], [1], [2], [9] and [9, 1], 9 being the id of no concept
PrerequisiteColumns ==
    {PrerequisiteIds("null", << >>), PrerequisiteIds("blank", << >>),
     PrerequisiteIds("invalid", << >>)}
    \cup {PrerequisiteIds("list", ids) :
             ids \in {<< >>, <<1>>, <<2>>, <<9>>, <<9, 1>>}}

\* table Concepts: every concept of a mastery record is a row
ConceptTables == [ConceptIds -> PrerequisiteColumns]

\* get_adaptive_assignments(student_id, db), table Concepts being concepts
get_adaptive_assignments_with(s, concepts) ==
    /\ result' = AdaptivePathway(mastery, s, concepts)
    /\ request' = concepts
    /\ last' = Call("get_adaptive_assignments", s, None, None, None, None,
                    None, None, 0, 200)
    /\ prev' = last
    /\ steps' = steps + 1
    /\ UNCHANGED <<mastery, student_assignments, engagement_logs, student_xp,
                   req, commits, attempts, student_quizzes, quizzes,
                   mastery_scores, gemini>>

GetAdaptiveAssignmentsWith ==
    /\ steps < MaxSteps
    /\ \E s \in Students, concepts \in ConceptTables :
          get_adaptive_assignments_with(s, concepts)

NextPath ==
    \/ UpdateMasteryScore
    \/ GetAdaptiveAssignmentsWith

SpecPath == Init /\ [][NextPath]_vars

\* ------------------------------------------------------------------------
\* get_question_statistics
\* ------------------------------------------------------------------------

\* the longest table StudentQuizzes, and the longest one whose rows are drawn
\* from every kind of row
MaxSubmissions == 8
MaxVaried == 3

\* a NULL in column answers
NullAnswers == [k \in {<<"null", 0>>} |-> "NULL"]
EmptyDict == [k \in {} |-> "A"]

\* a dictionary of the given pairs <<question id, answer>>, keyed by str
AnswersOf(pairs) ==
    [k \in {StrKey(pr[1]) : pr \in pairs} |->
        (CHOOSE pr \in pairs : StrKey(pr[1]) = k)[2]]

\* the values of column answers: NULL, no answer, question 1 only, both
\* questions, and a key that is not a question of the quiz
StoredAnswers ==
    {NullAnswers, EmptyDict,
     AnswersOf({<<1, "A">>}), AnswersOf({<<1, "B">>}),
     AnswersOf({<<1, "A">>, <<2, "B">>}), AnswersOf({<<1, "B">>, <<2, "A">>}),
     AnswersOf({<<2, "A">>, <<3, "A">>})}

\* the values of column score of a submitted row
StoredScores100 == {0, 100}

\* the rows of StudentQuizzes, without their id
VariedRows ==
    {[status |-> "submitted", score |-> sc, answers |-> a] :
        sc \in StoredScores100, a \in StoredAnswers}
    \cup {[status |-> "assigned", score |-> None, answers |-> NullAnswers]}
PlainRows ==
    {[status |-> "submitted", score |-> 100,
      answers |-> AnswersOf({<<1, "A">>, <<2, "B">>})],
     [status |-> "submitted", score |-> 0,
      answers |-> AnswersOf({<<1, "B">>, <<2, "A">>})],
     [status |-> "submitted", score |-> 0, answers |-> AnswersOf({<<1, "A">>})]}

\* the tables StudentQuizzes of quiz 1 the statistics are computed from
StatsTables ==
    LET rows(f) == [i \in DOMAIN f |->
                       [id |-> i, student_id |-> i, quiz_id |-> 1,
                        status |-> f[i].status, score |-> f[i].score,
                        answers |-> f[i].answers]]
    IN  {rows(f) : f \in UNION {[1..n -> VariedRows] : n \in 0..MaxVaried}}
        \cup
        {rows(f) : f \in UNION {[1..n -> PlainRows] :
                                   n \in (MaxVaried + 1)..MaxSubmissions}}

\* submission.answers or {}
OrEmpty(answers) == IF answers = NullAnswers THEN EmptyDict ELSE answers

\* filter(StudentQuizzes.quiz_id == quiz_id, StudentQuizzes.status == "submitted")
SubmittedRows(tbl, quiz_id) ==
    SelectSeq(tbl, LAMBDA r : r.quiz_id = quiz_id /\ r.status = "submitted")

\* sorted(submissions, key=lambda x: x.score): a stable sort
InsertByScore(sorted, x) ==
    LET k == Cardinality({i \in 1..Len(sorted) : sorted[i].score <= x.score})
    IN  SubSeq(sorted, 1, k) \o <<x>> \o SubSeq(sorted, k + 1, Len(sorted))
RECURSIVE SortedByScore(_)
SortedByScore(submissions) ==
    IF submissions = << >> THEN << >>
    ELSE InsertByScore(
             SortedByScore(SubSeq(submissions, 1, Len(submissions) - 1)),
             submissions[Len(submissions)])

\* half of the submissions in each group
NGroup_half(n) == Max(1, (n + 1) \div 2)

\* n_group = max(1, int(n * 0.27))
NGroup(n) == Max(1, (27 * n) \div 100)

\* sorted_submissions[-n_group:] and sorted_submissions[:n_group]
HighGroup(sorted, n_group) ==
    SubSeq(sorted, Max(1, Len(sorted) - n_group + 1), Len(sorted))
LowGroup(sorted, n_group) == SubSeq(sorted, 1, Min(n_group, Len(sorted)))

\* the submissions whose answers have a key k with int(k) = question id
AnsweredBy(submissions, q) ==
    {i \in 1..Len(submissions) :
        StrKey(q) \in DOMAIN OrEmpty(submissions[i].answers)}

\* str(answer) == str(question.correct_answer), answer = answers.get(str(id))
CorrectIn(submission, question) ==
    LET answer == DictGet(OrEmpty(submission.answers), StrKey(question.id))
    IN  answer # << >> /\ answer[1] = question.correct_answer

\* the counting loop that leaves incorrect answers out of incorrect_attempts
QuestionCounts_correct_only(submissions, question) ==
    LET answered == AnsweredBy(submissions, question.id)
        right == {i \in answered : CorrectIn(submissions[i], question)}
        given == {submissions[i].answers[StrKey(question.id)] : i \in answered}
    IN  [total_attempts |-> Cardinality(answered),
         correct_attempts |-> Cardinality(right),
         incorrect_attempts |-> 0,
         answer_distribution |->
             [a \in given |->
                 Cardinality({i \in answered :
                     submissions[i].answers[StrKey(question.id)] = a})],
         difficulty |-> IF Cardinality(answered) > 0
                        THEN Round(Cardinality(right) * Scale,
                                   Cardinality(answered))
                        ELSE 0]

\* the counting loop over the submissions and the difficulty of a question
QuestionCounts(submissions, question) ==
    LET answered == AnsweredBy(submissions, question.id)
        right == {i \in answered : CorrectIn(submissions[i], question)}
        given == {submissions[i].answers[StrKey(question.id)] : i \in answered}
    IN  [total_attempts |-> Cardinality(answered),
         correct_attempts |-> Cardinality(right),
         incorrect_attempts |-> Cardinality(answered \ right),
         answer_distribution |->
             [a \in given |->
                 Cardinality({i \in answered :
                     submissions[i].answers[StrKey(question.id)] = a})],
         difficulty |-> IF Cardinality(answered) > 0
                        THEN Round(Cardinality(right) * Scale,
                                   Cardinality(answered))
                        ELSE 0]

\* high_correct, low_correct: the correct answers of a group
GroupCorrect(group, question) ==
    Cardinality({i \in 1..Len(group) : CorrectIn(group[i], question)})

\* (high_correct - low_correct) / n_group
DiscriminationIndex(high_group, low_group, n_group, question) ==
    Round((GroupCorrect(high_group, question)
           - GroupCorrect(low_group, question)) * Scale, n_group)

\* p > 0 and q > 0: the branch that evaluates math.isnan, a name the module
\* does not import
ReachesIsnan(counts) == counts.difficulty > 0 /\ Scale - counts.difficulty > 0

\* the locals of get_question_statistics when it returns or raises
QuestionStatistics(tbl, qz, quiz_id) ==
    LET submissions == SubmittedRows(tbl, quiz_id)
        questions == qz[quiz_id]
        counts == [j \in 1..Len(questions) |->
                      QuestionCounts(submissions, questions[j])]
        n == Len(submissions)
        grouped == n > 1
        sorted_submissions == SortedByScore(submissions)
        n_group == IF grouped THEN NGroup(n) ELSE 0
        high_group == IF grouped THEN HighGroup(sorted_submissions, n_group)
                      ELSE << >>
        low_group == IF grouped THEN LowGroup(sorted_submissions, n_group)
                     ELSE << >>
        failing == {j \in 1..Len(questions) : grouped /\ ReachesIsnan(counts[j])}
        stop == IF failing = {} THEN Len(questions)
                ELSE CHOOSE j \in failing : \A k \in failing : j <= k
    IN  [raised |-> IF failing = {} THEN "" ELSE "NameError",
         n |-> n,
         n_group |-> n_group,
         high_group |-> [i \in 1..Len(high_group) |-> high_group[i].id],
         low_group |-> [i \in 1..Len(low_group) |-> low_group[i].id],
         question_stats |->
             [j \in 1..Len(questions) |->
                 [id |-> questions[j].id,
                  total_attempts |-> counts[j].total_attempts,
                  correct_attempts |-> counts[j].correct_attempts,
                  incorrect_attempts |-> counts[j].incorrect_attempts,
                  answer_distribution |-> counts[j].answer_distribution,
                  difficulty |-> counts[j].difficulty,
                  discrimination_index |->
                      IF grouped /\ j <= stop
                      THEN DiscriminationIndex(high_group, low_group, n_group,
                                               questions[j])
                      ELSE 0,
                  point_biserial |-> 0]]]

\* "if not quiz: return {}"
NoStatistics ==
    [raised |-> "", n |-> 0, n_group |-> 0, high_group |-> << >>,
     low_group |-> << >>, question_stats |-> << >>]

get_question_statistics(quiz_id) ==
    /\ result' = IF quiz_id \in 1..Len(quizzes)
                 THEN QuestionStatistics(student_quizzes, quizzes, quiz_id)
                 ELSE NoStatistics
    /\ last' = Call("get_question_statistics", 0, quiz_id, None, None, None,
                    None, None, 0,
                    IF result'.raised = "" THEN 200 ELSE 500)
    /\ prev' = last
    /\ steps' = steps + 1
    /\ UNCHANGED <<mastery, student_assignments, engagement_logs, student_xp,
                   req, commits, attempts, student_quizzes, quizzes,
                   mastery_scores, request, gemini>>

InitStats ==
    /\ mastery = << >>
    /\ student_assignments = [k \in Students \X AssignedIds |-> AssignedRow]
    /\ engagement_logs = [s \in Students |-> 0]
    /\ student_xp = [s \in Students |-> 0]
    /\ last = NoCall
    /\ prev = NoCall
    /\ steps = 0
    /\ req = [w \in Workers |-> IdleRequest]
    /\ commits = << >>
    /\ attempts = << >>
    /\ student_quizzes \in StatsTables
    /\ quizzes = SeededQuizzes
    /\ mastery_scores = << >>
    /\ result = NoStatistics
    /\ request = None
    /\ gemini = NoInvocation

GetQuestionStatistics ==
    /\ steps = 0
    /\ \E quiz_id \in 1..(Len(SeededQuizzes) + 1) :
          get_question_statistics(quiz_id)

NextStats == GetQuestionStatistics

SpecStats == InitStats /\ [][NextStats]_vars

\* ------------------------------------------------------------------------
\* call_gemini_api
\* ------------------------------------------------------------------------

\* @retry(stop=stop_after_attempt(3), ...)
stop_after_attempt == 3

\* how the request to the AI service ends: an exception raised by the import,
\* by genai.configure, by list_models, by "No models available", by
\* generate_content or by response.text; or a response whose text is JSON or
\* is not
RequestFailures ==
    {"import_error", "configure_error", "list_models_error", "no_models",
     "generate_error", "blocked_response"}
RequestOutcomes == RequestFailures \cup {"json", "plain_text"}

\* the api_key argument and GEMINI_API_KEY of the environment: none, or a key
ApiKeys == {"", "key"}

\* the key the body works with, "" when it finds none
ResolvedKey(g) == IF g.api_key # "" THEN g.api_key ELSE g.env_key

\* the retry decorator giving up one attempt later
Raised_one_more(g, outcome) ==
    [g EXCEPT !.outcome = outcome,
              !.pc = IF g.attempt_number < stop_after_attempt + 1
                     THEN "waiting" ELSE "error"]

\* an exception leaves the body: tenacity runs the body again unless this was
\* the last attempt, and then the invocation ends in an error
Raised(g, outcome) ==
    [g EXCEPT !.outcome = outcome,
              !.pc = IF g.attempt_number < stop_after_attempt
                     THEN "waiting" ELSE "error"]

\* the value returned
Returned(g, outcome, value) ==
    [g EXCEPT !.outcome = outcome, !.pc = "returned", !.value = value]

\* "except Exception" passing the exception on to the retry decorator
ExceptException_reraise(g, outcome) == Raised(g, outcome)

\* "except Exception as e": the fallback response instead of the exception
ExceptException(g, outcome) ==
    Returned(g, outcome,
             IF g.expect_json THEN "fallback_dict" ELSE "error_string")

\* one execution of the body of call_gemini_api, as attempt number n
Body(g, n, outcome) ==
    LET run == [g EXCEPT !.attempt_number = n]
    IN  IF ResolvedKey(run) = ""
        THEN Raised(run, "no_api_key")
        ELSE LET sent == [run EXCEPT !.requests = @ + 1]
             IN  IF outcome \in RequestFailures
                 THEN ExceptException(sent, outcome)
                 ELSE IF ~sent.expect_json
                 THEN Returned(sent, outcome, "response_text")
                 ELSE IF outcome = "json"
                 THEN Returned(sent, outcome, "response_data")
                 ELSE Returned(sent, outcome, "structured_text")

\* await call_gemini_api(prompt, api_key, expect_json): the invocation and
\* the first execution of its body
CallGeminiApi ==
    /\ steps < MaxSteps
    /\ gemini.pc \in {"idle", "returned", "error"}
    /\ \E api_key \in ApiKeys, env_key \in ApiKeys, expect_json \in BOOLEAN,
          outcome \in RequestOutcomes :
          gemini' = Body([NoInvocation EXCEPT !.api_key = api_key,
                                              !.env_key = env_key,
                                              !.expect_json = expect_json],
                         1, outcome)
    /\ last' = Call("call_gemini_api", 0, 0, None, None, None, None, None, 0, 0)
    /\ prev' = last
    /\ steps' = steps + 1
    /\ UNCHANGED <<mastery, student_assignments, engagement_logs, student_xp,
                   req, commits, attempts, student_quizzes, quizzes,
                   mastery_scores, result, request>>

\* the retry decorator runs the body again after the wait
RetryGeminiApi ==
    /\ gemini.pc = "waiting"
    /\ \E outcome \in RequestOutcomes :
          gemini' = Body(gemini, gemini.attempt_number + 1, outcome)
    /\ UNCHANGED <<mastery, student_assignments, engagement_logs, student_xp,
                   req, commits, attempts, student_quizzes, quizzes,
                   mastery_scores, result, request, last, prev, steps>>

NextGemini == CallGeminiApi \/ RetryGeminiApi

SpecGemini == InitBKT /\ [][NextGemini]_vars

\* the wait of the retry decorator ends (at most 10 seconds) and the body runs
FairSpecGemini == SpecGemini /\ WF_vars(RetryGeminiApi)

\* ------------------------------------------------------------------------
\* Properties
\* ------------------------------------------------------------------------

GradedUpdate(call) == call.op \in {"ums", "irt"}

\* the call created the record of its pair
CreatedRecord(call) == GradedUpdate(call) /\ call.before = None

\* a question of medium difficulty: 0.5 (the default of update_mastery_score),
\* and discrimination 1 where the call takes one
MediumQuestion(call) ==
    \/ call.op = "ums" /\ call.difficulty \in {None, 5000}
    \/ call.op = "irt" /\ call.difficulty = 5000 /\ call.discrimination = 10000

SameInputs(c1, c2) ==
    /\ c1.op = c2.op
    /\ c1.student = c2.student
    /\ c1.concept = c2.concept
    /\ c1.score = c2.score
    /\ c1.difficulty = c2.difficulty
    /\ c1.discrimination = c2.discrimination

\* C1: after any sequence of update_mastery_score, update_mastery_score_with_irt
\* and submit_quiz_answers calls (scores in [0,100], difficulty in [0,1],
\* discrimination in [0.5,1.5]) every stored mastery_score is in [0,100].
C1_MasteryInRange ==
    \A i \in 1..Len(mastery) :
        /\ 0 <= mastery[i].mastery_score
        /\ mastery[i].mastery_score <= 100 * PctUnit

\* an update that would have left [0,100] without the clamp: 93 raised to 100
C1_Witness ==
    /\ last.op = "ums"
    /\ Correctness(last.score)
    /\ last.before = 9300
    /\ last.after = 100 * PctUnit
    /\ ScoreOf(mastery, last.student, last.concept) = 100 * PctUnit

\* C2: update_mastery returns a value in [0,1] for every prior in [0,1] and
\* both observations, the priors 0 and 1 included.
C2_BktInRange ==
    last.op = "bkt" => 0 <= last.after /\ last.after <= Scale

\* prior 1.0 with a correct observation: 1.0 + 0.3 * 0 stays 1.0
C2_Witness ==
    /\ last.op = "bkt"
    /\ last.before = Scale
    /\ Correctness(last.score)
    /\ last.after = Scale

\* C3: update_mastery(prior, True) >= prior for every prior in [0,1].
C3_BktCorrectNotLower ==
    last.op = "bkt" /\ Correctness(last.score) => last.after >= last.before

\* prior 0.5, correct: 0.93
C3_Witness ==
    /\ last.op = "bkt"
    /\ Correctness(last.score)
    /\ last.before = 5000
    /\ last.after = 9300

\* C4 as stated: update_mastery(prior, False) <= prior for every prior in [0,1].
C4_BktIncorrectNotRaise ==
    last.op = "bkt" /\ ~Correctness(last.score) => last.after <= last.before

\* C4 amended: update_mastery(prior, False) <= prior for every prior in
\* [0.3375, 1]; below 0.3375 the learn-rate blend outweighs the evidence and
\* the result is greater than the prior.
C4_BktIncorrectNotRaiseFromFixpoint ==
    last.op = "bkt" /\ ~Correctness(last.score) =>
        /\ last.before >= 3375 => last.after <= last.before
        /\ last.before < 3375 => last.after > last.before

\* prior 0.5, incorrect: 0.37
C4_Witness ==
    /\ last.op = "bkt"
    /\ ~Correctness(last.score)
    /\ last.before = 5000
    /\ last.after = 3700

\* C5 as stated: update_mastery_score_with_irt yields a theta in [0,1] for
\* every theta and difficulty in [0,1], every discrimination and both
\* observations, on the existing-record and on the new-record path.
C5_IrtInRange ==
    last.op = "irt" => 0 <= last.after /\ last.after <= 100 * PctUnit

\* C5 amended: the same for every discrimination that is not negative.
C5_IrtInRangeNonNegative ==
    last.op = "irt" /\ last.discrimination >= 0 =>
        0 <= last.after /\ last.after <= 100 * PctUnit

\* theta 1.0, correct, discrimination 1.5: theta + adjustment is cut to 1.0
C5_Witness ==
    /\ last.op = "irt"
    /\ last.before = 100 * PctUnit
    /\ Correctness(last.score)
    /\ last.discrimination = 15000
    /\ last.after = 100 * PctUnit

\* C6: for a fresh pair, one graded interaction with a passing score on a
\* medium question creates a record with a score above 50, through either
\* update function.
C6_FreshPassAbove50 ==
    CreatedRecord(last) /\ Correctness(last.score) /\ MediumQuestion(last) =>
        /\ RowCount(mastery, last.student, last.concept) = 1
        /\ ScoreOf(mastery, last.student, last.concept) = last.after
        /\ last.after > 50 * PctUnit

\* the IRT path: 0.5 + 0.5 * 0.1 * 1 = 0.55
C6_Witness ==
    /\ CreatedRecord(last)
    /\ last.op = "irt"
    /\ Correctness(last.score)
    /\ MediumQuestion(last)
    /\ ScoreOf(mastery, last.student, last.concept) = 5500

\* C7: after a first correct answer on a medium question has created the
\* record, an incorrect answer on the same pair strictly lowers the stored
\* score and leaves it >= 0.
C7_IncorrectAfterFirstLowers ==
    (/\ CreatedRecord(prev) /\ Correctness(prev.score) /\ MediumQuestion(prev)
     /\ GradedUpdate(last) /\ ~Correctness(last.score)
     /\ last.student = prev.student /\ last.concept = prev.concept)
    => /\ ScoreOf(mastery, last.student, last.concept) < prev.after
       /\ ScoreOf(mastery, last.student, last.concept) >= 0

\* C8 as stated: whenever the stored mastery is below 100, the same graded
\* update applied again changes the stored score.
C8_NotIdempotent ==
    (/\ GradedUpdate(prev) /\ GradedUpdate(last) /\ SameInputs(prev, last)
     /\ last.before # None /\ last.before < 100 * PctUnit)
    => ScoreOf(mastery, last.student, last.concept) # last.before

\* the two cases in which a repeated update leaves a score below 100 as it is
ClampedAtZero(call) ==
    call.op = "irt" /\ ~Correctness(call.score) /\ call.before = 0
AtBktFixpoint(call) ==
    call.op = "ums" /\ ~Correctness(call.score) /\ call.before = 3375

\* C8 amended: whenever the stored mastery is below 100, the same graded
\* update applied again changes the stored score, except an incorrect answer
\* through update_mastery_score_with_irt at mastery 0 (theta is cut at 0) and
\* an incorrect answer through update_mastery_score at mastery 33.75 (the
\* fixed point of the BKT update); these two leave the score as it is.
C8_NotIdempotentOffFixpoints ==
    (/\ GradedUpdate(prev) /\ GradedUpdate(last) /\ SameInputs(prev, last)
     /\ last.before # None /\ last.before < 100 * PctUnit)
    => IF ClampedAtZero(last) \/ AtBktFixpoint(last)
       THEN ScoreOf(mastery, last.student, last.concept) = last.before
       ELSE ScoreOf(mastery, last.student, last.concept) # last.before

\* the same incorrect IRT update twice on a record created by the first
C8_Witness ==
    /\ CreatedRecord(prev) /\ prev.op = "irt" /\ ~Correctness(prev.score)
    /\ SameInputs(prev, last)
    /\ last.before = prev.after
    /\ last.before > 0
    /\ ScoreOf(mastery, last.student, last.concept) < last.before

\* no call but clear_data removes a row or a pair's record
KeepsRecords ==
    last'.op # "clear" =>
        /\ Len(mastery') >= Len(mastery)
        /\ \A s \in Students, c \in ConceptIds :
              RowCount(mastery', s, c) >= RowCount(mastery, s, c)

\* a graded update leaves exactly one record for its pair, holding its result
OneRecordWritten ==
    GradedUpdate(last) =>
        /\ RowCount(mastery, last.student, last.concept) = 1
        /\ ScoreOf(mastery, last.student, last.concept) = last.after

\* C9: there is at most one mastery record per (student, concept): the first
\* interaction creates it, later ones update it in place, and only clear_data
\* removes records.
C9_OneRecordPerPair ==
    /\ [](\A s \in Students, c \in ConceptIds : RowCount(mastery, s, c) <= 1)
    /\ []OneRecordWritten
    /\ [][KeepsRecords]_vars

\* a record created by one call and updated by the next, beside another pair's
C9_Witness ==
    /\ CreatedRecord(prev)
    /\ GradedUpdate(last)
    /\ last.student = prev.student /\ last.concept = prev.concept
    /\ last.before = prev.after
    /\ Len(mastery) = 2
    /\ RowCount(mastery, last.student, last.concept) = 1

\* no update of an existing record fails
BothComplete == \A w \in Workers : req[w].row # 0 => req[w].pc # "failed"

\* both requests are on one existing record and read it before any commit
Overlapped(w1, w2) ==
    /\ w1 # w2
    /\ req[w1].pc = "done" /\ req[w2].pc = "done"
    /\ commits = <<w1, w2>>
    /\ req[w1].row # 0 /\ req[w2].row = req[w1].row
    /\ req[w1].seen = 0 /\ req[w2].seen = 0

\* C10 as stated: when two updates of one existing record both read before
\* either commits, both complete and the stored score is the value computed by
\* the request that commits last from the score it read.
C10_LastWriteWins ==
    BothComplete /\ \A w1, w2 \in Workers :
        Overlapped(w1, w2) =>
            /\ req[w2].new = ComputeNew(req[w2].op, req[w2].read, req[w2].score,
                                        req[w2].difficulty, req[w2].discrimination)
            /\ mastery[req[w2].row].mastery_score = req[w2].new

\* C10 amended: ... the stored score is the value computed by the request that
\* commits last from the score it read, unless that value equals the score it
\* read: then its commit writes nothing and the stored score is the value
\* computed by the request that committed first.
C10_LastChangeWins ==
    BothComplete /\ \A w1, w2 \in Workers :
        Overlapped(w1, w2) =>
            /\ req[w2].new = ComputeNew(req[w2].op, req[w2].read, req[w2].score,
                                        req[w2].difficulty, req[w2].discrimination)
            /\ mastery[req[w2].row].mastery_score =
                   IF req[w2].new # req[w2].read THEN req[w2].new
                   ELSE req[w1].new

\* two overlapping updates that computed different scores from one read
C10_Witness ==
    \E w1, w2 \in Workers :
        /\ Overlapped(w1, w2)
        /\ req[w1].read = req[w2].read
        /\ req[w1].new # req[w2].new
        /\ req[w1].new # req[w1].read
        /\ req[w2].new # req[w2].read
        /\ mastery[req[w2].row].mastery_score = req[w2].new

\* C11: with theta 0.5, difficulty 0.5, discrimination 1 and a correct answer
\* the IRT update of an existing record has prob_correct = 0.5 and stores
\* theta 0.55, mastery 55.
C11_IrtMediumCorrect ==
    (/\ last.op = "irt" /\ last.before = 50 * PctUnit
     /\ Correctness(last.score)
     /\ last.difficulty = 5000 /\ last.discrimination = 10000)
    => /\ ProbCorrect(ToTheta(last.before), last.difficulty,
                      last.discrimination) = 5000
       /\ last.after = 55 * PctUnit
       /\ ScoreOf(mastery, last.student, last.concept) = 55 * PctUnit

\* the record at 50 updated to 55 by that call
C11_Witness ==
    /\ last.op = "irt" /\ last.before = 50 * PctUnit
    /\ Correctness(last.score)
    /\ last.difficulty = 5000 /\ last.discrimination = 10000
    /\ RowCount(mastery, last.student, last.concept) = 1
    /\ ScoreOf(mastery, last.student, last.concept) = 55 * PctUnit

\* C12: for one theta and one positive discrimination, and difficulties
\* b1 < b2: new_theta(correct, b2) >= new_theta(correct, b1) and
\* new_theta(incorrect, b1) <= new_theta(incorrect, b2).
C12_IrtMonotoneInDifficulty ==
    (/\ last.op = "theta" /\ prev.op = "theta"
     /\ last.discrimination > 0
     /\ prev.difficulty < last.difficulty)
    => IF Correctness(last.score)
       THEN last.after >= prev.after
       ELSE prev.after <= last.after

\* theta 0.5, discrimination 1: a correct answer on difficulty 1.0 gains more
\* than one on difficulty 0.0
C12_Witness ==
    /\ last.op = "theta" /\ prev.op = "theta"
    /\ Correctness(last.score)
    /\ last.before = 5000 /\ last.discrimination = 10000
    /\ prev.difficulty = 0 /\ last.difficulty = 10000
    /\ prev.after > prev.before
    /\ last.after > prev.after

\* a submit_quiz call that was accepted
Submitted(call) == call.op = "submit_quiz" /\ call.code = 200

\* the Attempt rows the last call added
Added == SubSeq(attempts, last.before + 1, last.after)

\* one Attempt per question of the quiz, incorrect where the body has no
\* answer to the question
OneAttemptPerQuestion ==
    Submitted(last) =>
        LET questions == quizzes[last.concept]
        IN  /\ last.after = Len(attempts)
            /\ Len(Added) = Len(questions)
            /\ \A i \in 1..Len(questions) :
                  /\ Cardinality({j \in 1..Len(Added) :
                         /\ Added[j].question_id = questions[i].id
                         /\ Added[j].student_id = last.student}) = 1
                  /\ IntKey(questions[i].id) \notin DOMAIN request =>
                         \A j \in 1..Len(Added) :
                             Added[j].question_id = questions[i].id =>
                                 ~Added[j].is_correct

\* the rows recorded earlier stay as they are, and only an accepted
\* submit_quiz adds rows
AppendOnly ==
    /\ Len(attempts') >= Len(attempts)
    /\ SubSeq(attempts', 1, Len(attempts)) = attempts
    /\ ~Submitted(last') => attempts' = attempts

\* C13: Attempt records are append-only: an accepted submit_quiz adds exactly
\* one Attempt per question of the quiz (an unanswered question is recorded
\* as incorrect), and no operation of the quiz router modifies or removes an
\* Attempt recorded earlier.
C13_AttemptsAppendOnly ==
    /\ []OneAttemptPerQuestion
    /\ [][AppendOnly]_vars

\* a second accepted submission, with an unanswered question, behind the two
\* attempts of the first
C13_Witness ==
    /\ Submitted(prev) /\ Submitted(last)
    /\ prev.after = 2 /\ last.before = 2 /\ Len(attempts) = 3
    /\ request = [k \in {} |-> "A"]
    /\ attempts[1].question_id = 1 /\ attempts[2].question_id = 2
    /\ attempts[3].question_id = 3 /\ ~attempts[3].is_correct

DashboardOps ==
    {"get_adaptive_assignments", "recommend_learning_path",
     "get_student_learning_profile", "analyze_learning_speed",
     "detect_struggling_students", "get_class_dashboard"}

GradingOps == {"ums", "irt", "sqa"}

\* a dashboard call leaves the mastery tables as they are, and a step that
\* changes a mastery table is a grading call
DashboardReadsOnly ==
    /\ last'.op \in DashboardOps =>
           mastery' = mastery /\ mastery_scores' = mastery_scores
    /\ mastery' # mastery => last'.op \in GradingOps

\* C14: get_adaptive_assignments, recommend_learning_path,
\* get_student_learning_profile, analyze_learning_speed,
\* detect_struggling_students and get_class_dashboard leave every mastery
\* record unchanged: only the grading operations create or modify mastery
\* scores.
C14_DashboardReadsOnly == [][DashboardReadsOnly]_vars

\* a dashboard call right after the grading call that created a record: the
\* record still holds the score that call stored
C14_Witness ==
    /\ CreatedRecord(prev)
    /\ last.op \in DashboardOps
    /\ last.op = "get_adaptive_assignments"
    /\ Len(mastery) = 1
    /\ prev.concept = 1 /\ prev.after = 93 * PctUnit
    /\ ScoreOf(mastery, prev.student, prev.concept) = prev.after
    /\ result = <<AdaptiveAssignment(21, "Advanced", 4, 45)>>

\* C16: for a student with no mastery records get_adaptive_assignments returns
\* a list of exactly one item, the Diagnostic Assessment, never an empty list.
C16_ColdStartDiagnostic ==
    (/\ last.op = "get_adaptive_assignments"
     /\ MasteryRecords(mastery, last.student) = << >>)
    => /\ Len(result) = 1
       /\ result[1].title = "Diagnostic Assessment"
       /\ result[1].assignment_id = 1

\* the call while table StudentMastery is empty
C16_Witness ==
    /\ last.op = "get_adaptive_assignments"
    /\ mastery = << >>
    /\ result = <<AdaptiveAssignment(1, "Diagnostic Assessment", 2, 20)>>

\* an instance with a guess or slip rate of 0 or 1
Degenerate(self) ==
    self.guess_rate \in {0, Scale} \/ self.slip_rate \in {0, Scale}

\* C15: update_mastery returns the prior unchanged when the Bayes denominator
\* is 0; with slip = guess = 0.1 the denominator is nonzero for every prior in
\* [0,1] and both observations, and it is 0 only for an instance with
\* degenerate parameters.
C15_ZeroDenominatorKeepsPrior ==
    last.op = "tracer" =>
        /\ result.denominator = 0 => last.after = last.before
        /\ result.self = bkt_model =>
               /\ result.denominator > 0
               /\ last.after = update_mastery(last.before, Correctness(last.score))
        /\ result.denominator = 0 => Degenerate(result.self)

\* slip 1: a correct answer at prior 1.0 has the denominator 1*0 + 0*g = 0
C15_Witness ==
    /\ last.op = "tracer"
    /\ result.self.slip_rate = Scale
    /\ Correctness(last.score)
    /\ last.before = Scale
    /\ result.denominator = 0
    /\ last.after = Scale

\* the last execution of the body had a key and its request failed
RequestFailed == gemini.outcome \in RequestFailures

\* a failed request ends the invocation with the fallback value
FallbackReturned ==
    RequestFailed =>
        /\ gemini.pc = "returned"
        /\ gemini.requests = 1
        /\ gemini.value = IF gemini.expect_json THEN "fallback_dict"
                          ELSE "error_string"

\* after a failed request the body is not run again for the invocation
NotRetried ==
    RequestFailed /\ gemini' # gemini => gemini'.attempt_number = 1

\* C20: when the request to the AI service fails with any exception after an
\* API key was resolved, call_gemini_api returns a fallback value on that same
\* attempt (a default dictionary when JSON is expected, an error string
\* otherwise) instead of raising, and the failure is not retried.
C20_RequestFailureFallsBack ==
    /\ []FallbackReturned
    /\ [][NotRetried]_vars

\* generate_content raised while JSON was expected, the key taken from the
\* environment: the default dictionary, after one execution of the body
C20_Witness ==
    /\ gemini.outcome = "generate_error"
    /\ gemini.api_key = "" /\ gemini.env_key = "key"
    /\ gemini.expect_json
    /\ gemini.pc = "returned"
    /\ gemini.attempt_number = 1
    /\ gemini.value = "fallback_dict"

\* get_question_statistics was applied to quiz 1, the quiz of the submissions
StatsCalled == last.op = "get_question_statistics" /\ last.concept = 1

\* the ids of the submitted submissions, and the ids in a group
SubmittedIds ==
    {i \in 1..Len(student_quizzes) : student_quizzes[i].status = "submitted"}
GroupIds(group) == {group[i] : i \in 1..Len(group)}

\* a group of the given size whose members are distinct submitted submissions
IsGroup(group, size) ==
    /\ Len(group) = size
    /\ Cardinality(GroupIds(group)) = size
    /\ GroupIds(group) \subseteq SubmittedIds

CorrectOfGroup(group, question) ==
    {id \in GroupIds(group) :
        /\ student_quizzes[id].answers # NullAnswers
        /\ StrKey(question.id) \in DOMAIN student_quizzes[id].answers
        /\ student_quizzes[id].answers[StrKey(question.id)]
               = question.correct_answer}

\* the discrimination index of every question is as the groups give it
DiscriminationAsGrouped ==
    \A j \in 1..Len(result.question_stats) :
        LET stats == result.question_stats[j]
            diff == Cardinality(CorrectOfGroup(result.high_group, quizzes[1][j]))
                    - Cardinality(CorrectOfGroup(result.low_group, quizzes[1][j]))
        IN  /\ stats.discrimination_index >= -Scale
            /\ stats.discrimination_index <= Scale
            /\ IF result.n < 2 THEN stats.discrimination_index = 0
               ELSE stats.discrimination_index * result.n_group = diff * Scale

\* the statement of C18 for the calls that return
DiscriminationWhenReturned ==
    StatsCalled /\ result.raised = "" => DiscriminationAsGrouped

\* a call that returns an index that is not 0: the low scorer left question 1
\* unanswered
DiscriminationReturned ==
    /\ StatsCalled
    /\ result.raised = ""
    /\ result.n = 2
    /\ result.question_stats[1].discrimination_index = Scale

RECURSIVE SumCounts(_, _)
SumCounts(f, keys) ==
    IF keys = {} THEN 0
    ELSE LET k == CHOOSE x \in keys : TRUE
         IN  f[k] + SumCounts(f, keys \ {k})

AtMostThreeAttempts == gemini.attempt_number <= 3

\* without a key every execution of the body raises, no request is sent, and
\* the invocation is in error exactly after the third execution
NoKeyRaises ==
    gemini.pc # "idle" /\ gemini.api_key = "" /\ gemini.env_key = "" =>
        /\ gemini.outcome = "no_api_key"
        /\ gemini.requests = 0
        /\ gemini.pc = IF gemini.attempt_number = 3 THEN "error" ELSE "waiting"

\* an invocation under way comes to its end
GeminiTerminates ==
    gemini.pc = "waiting" ~> gemini.pc \in {"returned", "error"}

\* C21: one invocation of call_gemini_api executes its body at most three
\* times and then terminates; when no API key can be resolved every attempt
\* raises and the invocation ends in an error after the third attempt.
C21_ThreeAttemptsThenError ==
    /\ []AtMostThreeAttempts
    /\ []NoKeyRaises
    /\ GeminiTerminates

\* no key as argument and none in the environment: the error after the third
\* execution of the body
C21_Witness ==
    /\ gemini.pc = "error"
    /\ gemini.api_key = "" /\ gemini.env_key = ""
    /\ gemini.attempt_number = 3
    /\ gemini.outcome = "no_api_key"
    /\ gemini.requests = 0

\* C22: submit_quiz_answers answers a submission whose 'questions' or
\* 'answers' list is missing or empty with HTTP 400, and a submission for an
\* assignment that is not assigned to the student with HTTP 404.
C22_ValidationStatus ==
    last.op = "sqa" /\ last.raised \in {400, 404} => last.code = last.raised

\* the last call was a first attempt of submit_quiz_answers that succeeded
FirstAttemptGraded ==
    /\ last.op = "sqa"
    /\ last.code = 200
    /\ "mastery_updated" \in DOMAIN result

\* C23: a successful first-attempt submit_quiz_answers request with a failing
\* score (below 70) returns a response that contains remedial content.
C23_RemedialContent ==
    FirstAttemptGraded /\ last.score < 70 * PctUnit =>
        "remedial_content" \in DOMAIN result

\* the step is a submit_quiz request for a record that is already submitted
Resubmission ==
    /\ steps' = steps + 1
    /\ last'.op = "submit_quiz"
    /\ \E i \in 1..Len(student_quizzes) :
          /\ student_quizzes[i].student_id = last'.student
          /\ student_quizzes[i].quiz_id = last'.concept
          /\ student_quizzes[i].status = "submitted"
          /\ \A j \in 1..(i - 1) :
                \/ student_quizzes[j].student_id # last'.student
                \/ student_quizzes[j].quiz_id # last'.concept

\* it is rejected with 400 and writes nothing
ResubmissionRejected ==
    Resubmission =>
        /\ last'.code = 400
        /\ attempts' = attempts
        /\ student_quizzes' = student_quizzes
        /\ mastery_scores' = mastery_scores

\* no question has two attempts of one student
AttemptedOnce ==
    \A i, j \in 1..Len(attempts) :
        /\ attempts[i].student_id = attempts[j].student_id
        /\ attempts[i].question_id = attempts[j].question_id
        => i = j

\* C24: an assigned quiz can be submitted once: submit_quiz on a
\* StudentQuizzes record whose status is already 'submitted' is rejected with
\* HTTP 400, records no Attempt, and changes neither the stored quiz score nor
\* any mastery record.
C24_SubmittedOnce ==
    /\ [][ResubmissionRejected]_vars
    /\ []AttemptedOnce

\* quiz 1 submitted, and submitted again: the two attempts of the first
\* submission, score and mastery as the first submission left them
C24_Witness ==
    /\ prev.op = "submit_quiz" /\ prev.code = 200 /\ prev.concept = 1
    /\ last.op = "submit_quiz" /\ last.code = 400 /\ last.concept = 1
    /\ Len(attempts) = 2
    /\ student_quizzes[1].status = "submitted"
    /\ student_quizzes[1].score = prev.score
    /\ Len(mastery_scores) = 2

\* the concept of a quiz question, by the id of the question
ConceptOfQuestion(q) ==
    LET hit == {x \in UNION {{<<k, j>> : j \in 1..Len(quizzes[k])} :
                                 k \in 1..Len(quizzes)} :
                   quizzes[x[1]][x[2]].id = q}
    IN  IF hit = {} THEN None
        ELSE LET at == CHOOSE x \in hit : TRUE
             IN  quizzes[at[1]][at[2]].concept_id

\* the student's recorded attempts for a concept
AttemptsFor(s, c) ==
    {i \in 1..Len(attempts) :
        attempts[i].student_id = s /\ ConceptOfQuestion(attempts[i].question_id) = c}

\* the stored mastery score of (s, c) is 100 * correct / all of the attempts
MasteryIsShareCorrect(s, c) ==
    LET all == AttemptsFor(s, c)
        correct == {i \in all : attempts[i].is_correct}
        rows == {i \in 1..Len(mastery_scores) :
                    /\ mastery_scores[i].student_id = s
                    /\ mastery_scores[i].concept_id = c}
    IN  /\ all # {}
        /\ Cardinality(rows) = 1
        /\ \A i \in rows :
              mastery_scores[i].mastery_score * Cardinality(all)
                  = 100 * PctUnit * Cardinality(correct)

Reattempt ==
    /\ steps' = steps + 1
    /\ last'.op = "sqa"
    /\ last'.code = 200
    /\ student_assignments[<<last'.student, result'.assignment_id>>].score # None

\* the response carries the score of this submission, and no table changes
PracticeOnly ==
    Reattempt =>
        /\ result'.score = ((result'.correct * 100) \div result'.total) * PctUnit
        /\ last'.score = result'.score
        /\ "mastery_updated" \notin DOMAIN result'
        /\ student_assignments' = student_assignments
        /\ mastery' = mastery
        /\ engagement_logs' = engagement_logs
        /\ student_xp' = student_xp

\* C26: only the first graded submission of an assignment quiz changes state:
\* when the stored assignment score is already set, submit_quiz_answers
\* returns the newly computed practice score and leaves the stored assignment
\* score, status, mastery record, engagement log and XP unchanged.
C26_ReattemptIsPractice == [][PracticeOnly]_vars

\* assignment 1 graded with score 0, then submitted again with every answer
\* right: the response says 100, the stored score is still 0
C26_Witness ==
    /\ prev.op = "sqa" /\ prev.code = 200 /\ prev.score = 0 /\ prev.concept = 1
    /\ last.op = "sqa" /\ last.code = 200 /\ last.concept = 1
    /\ result.score = 100 * PctUnit
    /\ "mastery_updated" \notin DOMAIN result
    /\ student_assignments[<<1, 1>>].score = 0
    /\ student_assignments[<<1, 1>>].status = "graded"
    /\ ScoreOf(mastery, 1, 1) = prev.after
    /\ engagement_logs[1] = 1
    /\ student_xp[1] = 50

\* the step is a first attempt of submit_quiz_answers that raised once the
\* session held the new score
FirstAttemptRaised ==
    /\ steps' = steps + 1
    /\ last'.op = "sqa"
    /\ last'.code = 500
    /\ last'.score # None

\* what is stored is what was stored before the request
RolledBack ==
    FirstAttemptRaised =>
        /\ student_assignments' = student_assignments
        /\ mastery' = mastery
        /\ engagement_logs' = engagement_logs
        /\ student_xp' = student_xp

C28_ExactlyOneAssignment ==
    last.op = "get_adaptive_assignments" => Len(result) = 1

\* the lists that are not the empty JSON list give one assignment
OneAssignmentUnlessEmptyList ==
    /\ last.op = "get_adaptive_assignments"
    /\ \A c \in DOMAIN request : request[c] # PrerequisiteIds("list", << >>)
    => Len(result) = 1

\* the requests for (s, quiz_id) that recorded attempts and set the score
Recorded(s, quiz_id) ==
    {w \in Workers : /\ req[w].pc = "done"
                     /\ req[w].student = s
                     /\ req[w].concept = quiz_id}

\* every other finished request for the pair was rejected as submitted
OthersRejected(s, quiz_id) ==
    \A w \in Workers :
        /\ req[w].pc = "failed"
        /\ req[w].student = s
        /\ req[w].concept = quiz_id
        /\ Recorded(s, quiz_id) # {}
        => req[w].code = 400

\* C29: when two submit_quiz requests for the same student and quiz
\* interleave, at most one of them records attempts and sets the score; the
\* other is rejected as already submitted, so the student's attempts for the
\* quiz are recorded once.
C29_OneSubmissionRecorded ==
    /\ AttemptedOnce
    /\ \A s \in Students, quiz_id \in QuizIds :
          /\ Cardinality(Recorded(s, quiz_id)) <= 1
          /\ OthersRejected(s, quiz_id)

\* AssignmentStatus in its order: ASSIGNED, SUBMITTED, GRADED
StatusRank(status) ==
    CASE status = "assigned" -> 0
      [] status = "submitted" -> 1
      [] status = "graded" -> 2

\* a step of submit_assignment or submit_quiz_answers moves no record back
StatusForward ==
    \A k \in DOMAIN student_assignments :
        /\ StatusRank(student_assignments'[k].status)
               >= StatusRank(student_assignments[k].status)
        /\ student_assignments[k].status = "graded"
           /\ student_assignments[k].score # None
           => student_assignments'[k].status = "graded"

\* C30: the status of a StudentAssignments record only moves forward
\* (ASSIGNED, SUBMITTED, GRADED): once a record is GRADED with a score, no
\* later submit_assignment or submit_quiz_answers sets it back to SUBMITTED
\* or ASSIGNED.
C30_StatusMovesForward == [][StatusForward]_vars

====
